---- MODULE Spec2Model ----
(***************************************************************************)
(* IKEA stock dashboard: the availability check (app/ikea_service.py), the *)
(* batch runner and the per-actor "check running" guard                    *)
(* (app/dashboard/routes.py), the webhook (app/api/routes.py) and the      *)
(* single-item check (app/items/routes.py), over the rows of app/models.py.*)
(*                                                                         *)
(* Conventions.  A nullable column or an Optional value is a sequence of   *)
(* length at most one: None == <<>>, a value v is <<v>>.  A Python string  *)
(* built by concatenation is the sequence of its pieces, so that           *)
(* "ERROR: " + msg is <<"ERROR: ", msg>> and "begins with" is Head.        *)
(* Each request (and each background thread) runs in its own SQLAlchemy    *)
(* session: what a handler stages becomes visible to the others at its     *)
(* commit, and is dropped when the handler ends by an exception (the       *)
(* session is removed with the application context).  A session works on   *)
(* the rows it has loaded: a row read once is not read again before the    *)
(* session commits (the commit expires it), and the UPDATE of a commit     *)
(* carries the columns whose assigned value differs from the loaded one.   *)
(***************************************************************************)
EXTENDS Integers, Sequences, FiniteSets, TLC

VARIABLES
    users,          \* users table: id -> row (username, role, email)
    folders,        \* folders table: id -> row (name, user_id)
    items,          \* items table: id -> row (the columns of models.Item)
    snapshots,      \* availability_snapshots: item id -> rows in insertion order
    CHECK_RUNNING,  \* dashboard/routes.py _CHECK_RUNNING: user id -> start mark
    now,            \* the wall clock read by datetime.utcnow()
    th,             \* the worker threads (request handlers, background runners)
    notified,       \* every call of _send_threshold_notification made so far
    attempts,       \* history: item id -> number of check_item calls that ended
    lastCheck,      \* history: the check_item call that ended last
    lastBatch,      \* history: the check_all_active_items call that ended last
    lastTrigger     \* history: the POST /check-all request answered last

vars == <<users, folders, items, snapshots, CHECK_RUNNING, now, th, notified,
          attempts, lastCheck, lastBatch, lastTrigger>>

-----------------------------------------------------------------------------
(* Bounds *)

\* The model accepts requests that lead to at most MaxTime calls of check_item.
MaxTime == 2

\* Per-store stock values reported by the external source: 0..MaxStock.
MaxStock == 2

ItemIds == {1, 2}
UserIds == {1, 2}
FolderIds == {1, 2}
ThreadIds == {1, 2}

-----------------------------------------------------------------------------
(* Optional values and strings *)

None == <<>>
Some(v) == <<v>>
IsNone(o) == o = <<>>
Get(o) == o[1]

\* A JSON string in a place where a number is expected ("n/a", "2"): neither
\* null nor an integer, so it has two components where an integer has one.
Text(s) == <<"str", s>>

\* A JSON number with a fractional part, whole + tenths / 10 (1.5 is
\* Float(1, 5)): a Python float, of three components.
Float(whole, tenths) == <<"float", whole, tenths>>

\* int(v) for a value that is not None (line 97): an integer (one component)
\* is returned as it is, a float loses its fractional part, a text is read as
\* a decimal integer; int() raises ValueError (None here) for a text that is
\* none.
int(v) ==
    IF Len(v) = 1 THEN v
    ELSE IF v[1] = "float" THEN Some(v[2])
    ELSE IF v = Text("2") THEN Some(2)
    ELSE None

\* A set as a sequence, smallest first (the order of a query without ORDER BY
\* on the integer primary key).
RECURSIVE SeqOfSet(_)
SeqOfSet(S) ==
    IF S = {} THEN <<>>
    ELSE LET m == CHOOSE x \in S : \A y \in S : x <= y
         IN  <<m>> \o SeqOfSet(S \ {m})

Range(s) == {s[k] : k \in 1..Len(s)}

-----------------------------------------------------------------------------
(* app/models.py *)

\* The attributes an Item instance has: the mapped columns and relationships
\* of class Item, and nothing else.
ItemColumns ==
    {"id", "user_id", "name", "product_id", "country_code", "store_ids",
     "is_active", "last_stock", "last_probability", "last_checked",
     "notify_threshold", "notify_enabled", "last_notified_at",
     "created_at", "updated_at", "folder_id", "folder", "tags",
     "user", "availability_snapshots"}

\* Reading item.<name>: Python raises AttributeError unless the class maps it.
HasAttr(name) == name \in ItemColumns

\* The relationship() declarations of models.py: the class that declares
\* the property, its name, the class it points to and the backref it asks for.
Relationship(on, name, target, backref) ==
    [on |-> on, name |-> name, target |-> target, backref |-> backref]

Relationships ==
    {Relationship("User", "items", "Item", Some("user")),
     Relationship("User", "tags", "Tag", Some("user")),
     Relationship("Folder", "user", "User", Some("folders")),
     Relationship("Tag", "user", "User", Some("tags")),
     Relationship("Tag", "items", "Item", None),
     Relationship("Item", "folder", "Folder", Some("items")),
     Relationship("Item", "tags", "Tag", None),
     Relationship("AvailabilitySnapshot", "item", "Item",
                  Some("availability_snapshots"))}

\* The relationship properties a class declares itself.
Declared(class) == {r.name : r \in {x \in Relationships : x.on = class}}

\* The backrefs SQLAlchemy cannot create when it configures the mappers: the
\* target class declares a property of that name itself ("Error creating
\* backref ... property of that name exists on mapper").
BackrefConflicts ==
    {r \in Relationships :
        ~IsNone(r.backref) /\ Get(r.backref) \in Declared(r.target)}

\* configure_mappers(), run by the first query: it raises ArgumentError when
\* a backref cannot be created.
MappersConfigure == BackrefConflicts = {}

\* The row create_default_admin adds.
DefaultAdmin == [username |-> "admin", role |-> "admin", email |-> None]

\* create_default_admin (lines 150-165).  User.query.count() is the first
\* query of the process and configures the mappers.
create_default_admin(rows) ==
    IF ~MappersConfigure THEN [raised |-> TRUE, users |-> rows]
    ELSE IF DOMAIN rows # {} THEN [raised |-> FALSE, users |-> rows]
    ELSE [raised |-> FALSE, users |-> [u \in {1} |-> DefaultAdmin]]

\* User.is_admin
is_admin(u) == u.role = "admin"

\* User.can_edit_items
can_edit_items(u) == u.role \in {"admin", "user"}

\* A row of items as add_item / import_submit create it: nothing observed
\* yet, and in no folder.
NewItem(owner, active, enabled, threshold) ==
    [user_id |-> owner, is_active |-> active,
     last_stock |-> None, last_probability |-> None, last_checked |-> None,
     notify_threshold |-> threshold, notify_enabled |-> enabled,
     last_notified_at |-> None, folder_id |-> None]

\* A row of folders (models.py lines 45-53): user_id is NOT NULL.
Folder(user_id, name) == [name |-> name, user_id |-> user_id]

-----------------------------------------------------------------------------
(* app/ikea_service.py: the external source *)

NODE_SUBPROCESS_TIMEOUT == 30

\* How one run of "node ikea_client.js" can end: killed at the timeout, or
\* exited with a return code, its stripped stderr, and its stripped stdout
\* (empty or not, JSON or not, and what it decodes to).  "type" is the Python
\* type json.loads gives back for the text: a list (data holds its entries),
\* a dict for a JSON object (data holds its keys, [key |-> name] each, which
\* is what Python iterates over), or NoneType for the text null.
Proc(timed_out, returncode, stderr, stdout_empty, json_ok, data) ==
    [timed_out |-> timed_out, returncode |-> returncode, stderr |-> stderr,
     stdout_empty |-> stdout_empty, json_ok |-> json_ok, data |-> data,
     type |-> "list"]

\* The probability labels of the source, in Python's string order.
LabelOrder == <<"HIGH_IN_STOCK", "LOW_IN_STOCK", "OUT_OF_STOCK">>

Entry(stock, probability) == [stock |-> stock, probability |-> probability]

\* The responses the model feeds to a check: one store reporting 0..MaxStock
\* with a label, and two stores of which one reports no stock figure.
Responses ==
    {<<Entry(Some(s), Some(LabelOrder[1]))>> : s \in 0..MaxStock}
    \cup {<<Entry(Some(MaxStock), Some(LabelOrder[2])), Entry(None, None)>>}

\* Responses of one or two stores, each with a stock figure that is null (or
\* missing), an integer, a number with a fractional part, a text that reads
\* as an integer or a text that does not, and a label that is null, empty or
\* one of two labels: every order and every repetition of two entries.
RichEntries ==
    {Entry(s, p) : s \in {None, Some(1), Some(MaxStock), Float(1, 5),
                          Text("2"), Text("n/a")},
                   p \in {None, Some(""), Some(LabelOrder[1]), Some(LabelOrder[3])}}

RichResponses ==
    {<<e>> : e \in RichEntries} \cup {<<e, f>> : e \in RichEntries, f \in RichEntries}

ProcOutcomes ==
    {Proc(TRUE, 0, "", TRUE, FALSE, <<>>),        \* TimeoutExpired
     Proc(FALSE, 1, "", TRUE, FALSE, <<>>),       \* exit 1, nothing on stderr
     Proc(FALSE, 0, "", FALSE, FALSE, <<>>),      \* exit 0, stdout is not JSON
     Proc(FALSE, 0, "", TRUE, FALSE, <<>>)}       \* exit 0, empty stdout
    \cup {Proc(FALSE, 0, "", FALSE, TRUE, d) : d \in Responses}

\* str.strip() on the texts the model uses for stderr: blank text becomes
\* empty, a trailing newline is dropped.
Strip(s) ==
    IF s \in {"", " ", "\n"} THEN ""
    ELSE IF s = "boom\n" THEN "boom"
    ELSE s

\* _run_node_checker: (data, error_message).  Line 45 hands back whatever
\* json.loads makes of the text: None for the text null (with no error
\* message), a dict for an object, a list.
RunNodeChecker(proc) ==
    IF proc.timed_out
    THEN [data |-> None, error |-> Some("Node process timed out.")]
    ELSE IF proc.returncode # 0
    THEN [data |-> None,
          error |-> Some(IF Strip(proc.stderr) # "" THEN Strip(proc.stderr)
                         ELSE "Node process failed.")]
    ELSE IF proc.stdout_empty
    THEN [data |-> Some(<<>>), error |-> None]
    ELSE IF ~proc.json_ok
    THEN [data |-> None, error |-> Some("Failed to parse JSON from Node output.")]
    ELSE IF proc.type = "NoneType"
    THEN [data |-> None, error |-> None]
    ELSE [data |-> Some(proc.data), error |-> None]

\* Python truthiness of "error": a non-empty string.
TruthyError(error) == ~IsNone(error) /\ Get(error) # ""

\* Mutant of TruthyData: an empty list counts as data.
C29_EmptyIsDataMutant(data) == ~IsNone(data)

\* Python truthiness of "data": a list or a dict that is not empty.
TruthyData(data) == ~IsNone(data) /\ Get(data) # <<>>

-----------------------------------------------------------------------------
(* app/ikea_service.py: parse_availability_summary *)

\* lines 89-99: entry.get("stock") is None for a null and for a missing key;
\* int(stock) is added to the total, and an entry on which int() raises
\* ValueError is passed over.
RECURSIVE SumStock(_)
SumStock(data) ==
    IF data = <<>> THEN 0
    ELSE (IF IsNone(Head(data).stock) \/ IsNone(int(Head(data).stock)) THEN 0
          ELSE Get(int(Head(data).stock)))
         + SumStock(Tail(data))

\* lines 100-102: "if prob" passes over a null, a missing and an empty label
Probabilities(data) ==
    {Get(data[k].probability) :
        k \in {j \in 1..Len(data) : /\ ~IsNone(data[j].probability)
                                    /\ Get(data[j].probability) # ""}}

\* ", ".join(seq): the pieces of the joined string.
RECURSIVE Join(_)
Join(seq) ==
    IF seq = <<>> THEN <<>>
    ELSE IF Len(seq) = 1 THEN seq
    ELSE <<Head(seq), ", ">> \o Join(Tail(seq))

\* sorted(probabilities)
Sorted(labels) == SelectSeq(LabelOrder, LAMBDA l : l \in labels)

\* lines 85-106, for data whose entries are dicts
parse_availability_summary(data) ==
    [total_stock |-> SumStock(data),
     prob_str |-> IF Probabilities(data) # {}
                  THEN Join(Sorted(Probabilities(data)))
                  ELSE <<"UNKNOWN">>]

\* Mutant of ErrorSummary: the message without the marker.
C14_NoMarkerMutant(error) ==
    <<IF TruthyError(error) THEN Get(error) ELSE "No data">>

\* f"ERROR: {error or 'No data'}"
ErrorSummary(error) ==
    <<"ERROR: ", IF TruthyError(error) THEN Get(error) ELSE "No data">>

\* error or "No data"
ErrorMessage(error) == IF TruthyError(error) THEN Get(error) ELSE "No data"

-----------------------------------------------------------------------------
(* app/ikea_service.py: check_item, the threshold rule for "above" *)

\* should_notify (lines 214-218)
ShouldNotifyAbove(item, total_stock) ==
    item.notify_enabled /\ ~IsNone(item.notify_threshold) /\ ~IsNone(total_stock)

\* Mutant of WasBelow: "<=" for "<", a stock resting at the threshold counts
\* as below it.
C2_WasBelowMutant(previous_stock, threshold) ==
    IsNone(previous_stock) \/ Get(previous_stock) <= threshold

\* was_below (line 220)
WasBelow(previous_stock, threshold) ==
    IsNone(previous_stock) \/ Get(previous_stock) < threshold

\* now_above (line 221)
NowAbove(total_stock, threshold) == total_stock >= threshold

\* lines 214-222: whether _send_threshold_notification(..., 'above') is called
FiresAbove(item, previous_stock, total_stock) ==
    /\ ShouldNotifyAbove(item, total_stock)
    /\ WasBelow(previous_stock, Get(item.notify_threshold))
    /\ NowAbove(Get(total_stock), Get(item.notify_threshold))

\* The User object a session holds apart from the table: the account that
\* made the request (flask_login's current_user, loaded by load_user) or the
\* User the background runner loaded (dashboard/routes.py line 94).
Me(id, row) == Some([id |-> id, row |-> row])

\* The User object an id resolves to in a session: the object the session
\* holds (it is not read again), else the row of the table, else nothing.
SessionUser(me, u) ==
    IF ~IsNone(me) /\ Get(me).id = u THEN Some(Get(me).row)
    ELSE IF u \in DOMAIN users THEN Some(users[u])
    ELSE None

\* The accounts the query of lines 124-126 returns: it is evaluated on the
\* table.
AdminUsers == {a \in DOMAIN users : users[a].role = "admin" /\ ~IsNone(users[a].email)}

\* _send_threshold_notification: the set "recipients" (lines 118-129), its
\* members the values of User.email.  The owner's address is added when it is
\* not null; the address of each account of AdminUsers is added as the session
\* holds it.
Recipients(item, me) ==
    (IF /\ ~IsNone(SessionUser(me, item.user_id))
        /\ ~IsNone(Get(SessionUser(me, item.user_id)).email)
     THEN {Get(SessionUser(me, item.user_id)).email} ELSE {})
    \cup {Get(SessionUser(me, a)).email : a \in AdminUsers}

\* The recipients gathered when the query of an account raises: the owner's
\* address, when the session holds the owner (reading item.user then runs no
\* query).
RecipientsHeld(item, me) ==
    IF ~IsNone(me) /\ Get(me).id = item.user_id /\ ~IsNone(Get(me).row.email)
    THEN {Get(me).row.email} ELSE {}

Notification(i, item, direction, timestamp, total_stock, me) ==
    [item |-> i, direction |-> direction, timestamp |-> timestamp,
     total_stock |-> total_stock, to |-> Recipients(item, me)]

\* What the mail system does with a message handed to send_email: it takes
\* the message, the SMTP settings are missing, smtplib raises, or the server
\* accepts the connection and stays silent.
SmtpOutcomes == {"sent", "not_configured", "smtp_error", "silent"}

\* _send_threshold_notification line 131-132 and send_email: the fate of the
\* message.  No recipients: send_email is not called.  SMTP settings missing:
\* a warning is logged (email_utils.py line 22-24).  A null among the
\* recipients: ", ".join(recipients) raises TypeError (line 29, outside the
\* try).  A silent server: smtplib.SMTP(host, port) (line 32) is given no
\* timeout and waits for the greeting as long as the server keeps the
\* connection, so send_email does not return.  An exception of smtplib:
\* caught and logged (line 38-39).
Delivery(to, smtp) ==
    IF to = {} THEN "no_recipients"
    ELSE IF smtp = "not_configured" THEN "skipped"
    ELSE IF None \in to THEN "raised"
    ELSE IF smtp = "silent" THEN "hung"
    ELSE IF smtp = "smtp_error" THEN "failed"
    ELSE "delivered"

\* One call of _send_threshold_notification with what became of its message.
Sent(n, smtp) ==
    [item |-> n.item, direction |-> n.direction, timestamp |-> n.timestamp,
     total_stock |-> n.total_stock, to |-> n.to, delivery |-> Delivery(n.to, smtp)]

\* A call of _send_threshold_notification that raised before send_email.
Unsent(n, to) ==
    [item |-> n.item, direction |-> n.direction, timestamp |-> n.timestamp,
     total_stock |-> n.total_stock, to |-> to, delivery |-> "unsent"]

\* The environment of one check: how the node process ends, what the mail
\* system does, and whether the store accepts what the check writes.
Env(proc, smtp, commit_ok) == [proc |-> proc, smtp |-> smtp, commit_ok |-> commit_ok]

Envs(procs, smtps, commits) ==
    {Env(p, m, c) : p \in procs, m \in smtps, c \in commits}

Snapshot(timestamp, total_stock, probability_summary, raw_json) ==
    [timestamp |-> timestamp, total_stock |-> total_stock,
     probability_summary |-> probability_summary, raw_json |-> raw_json]

\* What one call of check_item does, given the Item object it was handed (the
\* row as the session loaded it), how the node process ended and the time
\* read at line 180.  "committed" tells whether db.session.commit() was reached;
\* "snapshot" and "row" are the Snapshot and the Item object it staged; "notes"
\* are the calls of _send_threshold_notification made on the way (mail is not
\* undone by a rollback); "outcome" is "returned" with (ret_ok, ret_err),
\* "raised" when an exception leaves check_item, or "hung" when check_item
\* stays in send_email; "built" tells whether the check got as far as building
\* its Snapshot.
CheckResult(outcome, ret_ok, ret_err, committed, snapshot, row, notes, error, total_stock, above, bellow) ==
    [outcome |-> outcome, ret_ok |-> ret_ok, ret_err |-> ret_err,
     committed |-> committed, snapshot |-> snapshot, row |-> row,
     notes |-> notes, error |-> error, total_stock |-> total_stock,
     fired_above |-> above, fired_bellow |-> bellow, rejected |-> FALSE,
     built |-> TRUE]

\* The flush of the session (the UPDATE of the items row, then the INSERT of
\* the Snapshot): inside db.session.commit(), or before the query of line 124
\* (autoflush).  It raises when the items row is gone (the UPDATE matches no
\* row: StaleDataError) and when the store rejects the writes.
FlushOk(present, env) == present /\ env.commit_ok

\* db.session.commit() (lines 196 and 239): when the flush raises, the
\* exception leaves check_item, which has no handler, and nothing of the
\* session is written.
Commit(r, flush_ok) ==
    IF r.committed /\ ~flush_ok
    THEN [r EXCEPT !.outcome = "raised", !.ret_ok = FALSE, !.ret_err = None,
                   !.committed = FALSE, !.rejected = TRUE]
    ELSE r

\* Mutant of CheckItemFailed: line 193 (item.last_stock = None) left out.
C5_KeepsStockMutant(loaded, error, timestamp) ==
    CheckResult("returned", FALSE, Some(ErrorMessage(error)), TRUE,
        Snapshot(timestamp, None, ErrorSummary(error), None),
        [loaded EXCEPT !.last_probability = Some(ErrorSummary(error)),
                       !.last_checked = Some(timestamp)],
        {}, error, None, FALSE, FALSE)

\* Mutant of CheckItemFailed: line 195 (item.last_checked = timestamp) left out.
C15_NoStampMutant(loaded, error, timestamp) ==
    CheckResult("returned", FALSE, Some(ErrorMessage(error)), TRUE,
        Snapshot(timestamp, None, ErrorSummary(error), None),
        [loaded EXCEPT !.last_stock = None,
                       !.last_probability = Some(ErrorSummary(error))],
        {}, error, None, FALSE, FALSE)

\* lines 182-197: the external call failed or returned nothing
CheckItemFailed(loaded, error, timestamp) ==
    CheckResult("returned", FALSE, Some(ErrorMessage(error)), TRUE,
        Snapshot(timestamp, None, ErrorSummary(error), None),
        [loaded EXCEPT !.last_stock = None,
                       !.last_probability = Some(ErrorSummary(error)),
                       !.last_checked = Some(timestamp)],
        {}, error, None, FALSE, FALSE)

\* lines 226-240, reached only when class Item maps the "bellow" columns.
\* As for the rule above, the session flushes before the query of line 124:
\* when the flush raises, send_email is not reached.
CheckItemBellow(i, loaded, me, data, timestamp, env, staged, notes, above, flush_ok) ==
    LET parsed == parse_availability_summary(data)
        total  == parsed.total_stock
        snap   == Snapshot(timestamp, Some(total), parsed.prob_str, Some(data))
        should == /\ loaded.notify_bellow_enabled
                  /\ ~IsNone(loaded.notify_bellow_threshold)
        bellow == /\ should
                  /\ (IsNone(loaded.last_stock)
                      \/ Get(loaded.last_stock) >= Get(loaded.notify_bellow_threshold))
                  /\ total < Get(loaded.notify_bellow_threshold)
        note   == Notification(i, loaded, "bellow", timestamp, total, me)
        sent   == Sent(note, env.smtp)
    IN  IF bellow /\ ~flush_ok
        THEN \* line 121 or 124: the flush raises
             [CheckResult("raised", FALSE, None, FALSE, snap, staged,
                  notes \cup {Unsent(note, RecipientsHeld(loaded, me))},
                  None, Some(total), above, TRUE) EXCEPT !.rejected = TRUE]
        ELSE IF bellow /\ sent.delivery \in {"raised", "hung"}
        THEN \* line 236: TypeError out of send_email, or no return from it
             CheckResult(sent.delivery, FALSE, None, FALSE, snap,
                 staged, notes \cup {sent}, None, Some(total), above, TRUE)
        ELSE CheckResult("returned", TRUE, None, TRUE, snap,
                 IF bellow
                 THEN [staged EXCEPT !.last_notified_bellow_at = Some(timestamp)]
                 ELSE staged,
                 notes \cup (IF bellow THEN {sent} ELSE {}),
                 None, Some(total), above, bellow)

\* lines 199-240: the external call returned a non-empty list.  The rule of
\* lines 214-222 reads the Item object of the session.  A notification runs
\* the queries of lines 121 and 124, before which the session flushes.
CheckItemParsed(i, loaded, present, me, data, timestamp, env) ==
    LET parsed == parse_availability_summary(data)
        total  == parsed.total_stock
        snap   == Snapshot(timestamp, Some(total), parsed.prob_str, Some(data))
        above  == FiresAbove(loaded, loaded.last_stock, Some(total))
        note   == Notification(i, loaded, "above", timestamp, total, me)
        sent   == Sent(note, env.smtp)
        staged == [loaded EXCEPT
                      !.last_stock = Some(total),
                      !.last_probability = Some(parsed.prob_str),
                      !.last_checked = Some(timestamp)]
        stamped == [staged EXCEPT !.last_notified_at = Some(timestamp)]
    IN  IF above /\ ~FlushOk(present, env)
        THEN \* line 121 or 124: the flush raises, send_email is not reached
             [CheckResult("raised", FALSE, None, FALSE, snap, staged,
                  {Unsent(note, RecipientsHeld(loaded, me))},
                  None, Some(total), TRUE, FALSE) EXCEPT !.rejected = TRUE]
        ELSE IF above /\ sent.delivery \in {"raised", "hung"}
        THEN \* line 223: TypeError out of send_email, or no return from it
             CheckResult(sent.delivery, FALSE, None, FALSE, snap, staged, {sent},
                 None, Some(total), TRUE, FALSE)
        ELSE IF ~HasAttr("notify_bellow_enabled")
        THEN \* line 228: AttributeError, before db.session.commit()
             CheckResult("raised", FALSE, None, FALSE, snap,
                 IF above THEN stamped ELSE staged,
                 IF above THEN {sent} ELSE {},
                 None, Some(total), above, FALSE)
        ELSE Commit(CheckItemBellow(i, loaded, me, data, timestamp, env,
                                    IF above THEN stamped ELSE staged,
                                    IF above THEN {sent} ELSE {}, above,
                                    FlushOk(present, env)),
                    FlushOk(present, env))

\* check_item, lines 170-240, on the Item object "loaded"; "present" tells
\* whether the items table still holds a row of that id when the session
\* flushes.
check_item(i, loaded, present, me, env, timestamp) ==
    LET r == RunNodeChecker(env.proc)
    IN  IF TruthyError(r.error) \/ ~TruthyData(r.data)
        THEN Commit(CheckItemFailed(loaded, r.error, timestamp), FlushOk(present, env))
        ELSE IF \E k \in 1..Len(Get(r.data)) : "key" \in DOMAIN Get(r.data)[k]
        THEN \* line 199: parse_availability_summary iterates over the keys of
             \* a dict, entry.get (line 95) on a str raises AttributeError,
             \* which leaves check_item; the session is untouched
             [CheckResult("raised", FALSE, None, FALSE, None, loaded, {},
                  None, None, FALSE, FALSE) EXCEPT !.built = FALSE]
        ELSE CheckItemParsed(i, loaded, present, me, Get(r.data), timestamp, env)

\* Mutant of AddSnapshot: the newest row of the history is overwritten.
C17_OverwriteMutant(rows, snapshot) ==
    IF rows = <<>> THEN <<snapshot>> ELSE [rows EXCEPT ![Len(rows)] = snapshot]

\* The value a column has after the UPDATE of a session: the assigned value
\* when it differs from the value the session loaded, and else what the table
\* holds (the column is not part of the UPDATE).
Column(current, loaded, assigned) ==
    IF assigned # loaded THEN assigned ELSE current

\* The UPDATE of the items row at the commit (lines 196, 239), on the row
\* "current" of the table, by a session that loaded "loaded" and holds "row".
WriteRow(current, loaded, row) ==
    [current EXCEPT
        !.is_active = Column(@, loaded.is_active, row.is_active),
        !.last_stock = Column(@, loaded.last_stock, row.last_stock),
        !.last_probability = Column(@, loaded.last_probability, row.last_probability),
        !.last_checked = Column(@, loaded.last_checked, row.last_checked),
        !.notify_threshold = Column(@, loaded.notify_threshold, row.notify_threshold),
        !.notify_enabled = Column(@, loaded.notify_enabled, row.notify_enabled),
        !.last_notified_at = Column(@, loaded.last_notified_at, row.last_notified_at)]

\* db.session.add(snapshot) at the commit: one more row of the item's history
AddSnapshot(rows, snapshot) == Append(rows, snapshot)

-----------------------------------------------------------------------------
(* State *)

\* A worker thread: the handler it runs (op), where it is in it (pc), the
\* actor (None for the webhook), and the locals of check_all_active_items and
\* check_item.  Its session: "rows" are the Item objects of the items in
\* "todo" as the query of line 255 loaded them, "loaded" is the Item object
\* handed to check_item, "me" the User object of the actor, and "expired"
\* tells that the session has committed, after which it reads every object
\* again from the table.
\* "owner" is the local user_id of delete_item (line 335).
\* "scope", "attempted" and "added" are history: the items the batch selected,
\* those it handed to check_item, and the snapshots its checks committed.
Thread(op, pc, user, todo, item, previous_stock) ==
    [op |-> op, pc |-> pc, user |-> user, todo |-> todo,
     item |-> item, previous_stock |-> previous_stock,
     successes |-> 0, failures |-> 0,
     scope |-> todo, attempted |-> <<>>, added |-> 0,
     stamp |-> None, env |-> None,
     loaded |-> None, rows |-> <<>>, me |-> None, expired |-> FALSE,
     owner |-> None]

\* A thread at line 178 of check_item, on the Item object "row" of item i.
Checking(op, user, i, row, me) ==
    [Thread(op, "node", user, <<>>, Some(i), row.last_stock) EXCEPT
        !.loaded = Some(row), !.me = me]

\* A thread at line 259 of check_all_active_items, the query of line 255
\* having loaded the items "ids".
Looping(op, user, ids, me) ==
    [Thread(op, "loop", user, ids, None, None) EXCEPT
        !.rows = [k \in 1..Len(ids) |-> items[ids[k]]], !.me = me]

Idle == Thread("idle", "idle", None, <<>>, None, None)

NoCheck ==
    [at |-> 0, item |-> 0, op |-> "none", previous_stock |-> None,
     notify_enabled |-> FALSE, notify_threshold |-> None,
     outcome |-> "none", ret_ok |-> FALSE, ret_err |-> None,
     committed |-> FALSE, error |-> None, total_stock |-> None,
     fired_above |-> FALSE, fired_bellow |-> FALSE,
     data |-> None, snapshot |-> None, row |-> None, rejected |-> FALSE,
     proc |-> None]

NoBatch ==
    [trigger |-> "none", actor |-> None, scope |-> <<>>, attempted |-> <<>>,
     remaining |-> <<>>, outcome |-> "none", successes |-> 0, failures |-> 0,
     added |-> 0]

NoTrigger == [user |-> 0, accepted |-> FALSE, found_running |-> FALSE]

\* The users table of a deployment in service: the account "admin" that
\* create_default_admin adds to an empty table (id 1) and one account with
\* the default role "user" (id 2), each with or without an email.  Such a
\* table is the work of a process whose mappers configure; a process of
\* this revision ends in create_app (CreateApp below).
UserRows(adminEmail, userEmail) ==
    [u \in UserIds |->
        IF u = 1 THEN [username |-> "admin", role |-> "admin", email |-> adminEmail]
                 ELSE [username |-> "user", role |-> "user", email |-> userEmail]]

\* Item 1 belongs to the admin, the others to the user.
OwnerOf(i) == IF i = 1 THEN 1 ELSE 2

\* The notification settings an item can be saved with (add_item, edit_item):
\* the checkbox and the threshold field are independent.
NotifyConfigs ==
    {[enabled |-> FALSE, threshold |-> Some(1)],
     [enabled |-> TRUE, threshold |-> None],
     [enabled |-> TRUE, threshold |-> Some(1)],
     [enabled |-> TRUE, threshold |-> Some(MaxStock)]}

InitWith(active, cfg) ==
    /\ users = UserRows(Some("admin@example.org"), None)
    /\ folders = <<>>
    /\ items = [i \in ItemIds |->
                   NewItem(OwnerOf(i), active[i], cfg[i].enabled, cfg[i].threshold)]
    /\ snapshots = [i \in ItemIds |-> <<>>]
    /\ CHECK_RUNNING = [u \in UserIds |-> None]
    /\ now = 0
    /\ th = [t \in ThreadIds |-> Idle]
    /\ notified = {}
    /\ attempts = [i \in ItemIds |-> 0]
    /\ lastCheck = NoCheck
    /\ lastBatch = NoBatch
    /\ lastTrigger = NoTrigger

\* Freshly created items, all notifying at threshold 1: item 1 active, the
\* others active or paused.
Init ==
    \E active \in {f \in [ItemIds -> BOOLEAN] : f[1]} :
        InitWith(active, [i \in ItemIds |-> [enabled |-> TRUE, threshold |-> Some(1)]])

\* Freshly created active items; item 1 with any notification settings.
InitSeq ==
    \E c \in NotifyConfigs :
        InitWith([i \in ItemIds |-> TRUE],
                 [i \in ItemIds |-> IF i = 1 THEN c
                                    ELSE [enabled |-> TRUE, threshold |-> Some(1)]])

\* A database that already holds one observation of item 1, written before
\* the clock of the model starts (the items and availability_snapshots tables
\* outlive a deployment): item 1 with any notification settings and any stored
\* last_stock, or never checked.
StoredStocks == {None} \cup {Some(s) : s \in 0..MaxStock}

StoredItem(row, stored) ==
    IF IsNone(stored) THEN row
    ELSE [row EXCEPT !.last_stock = stored,
                     !.last_probability = Some(<<LabelOrder[1]>>),
                     !.last_checked = Some(0 - 1)]

StoredSnapshots(stored) ==
    IF IsNone(stored) THEN <<>>
    ELSE <<Snapshot(0 - 1, stored, <<LabelOrder[1]>>,
                    Some(<<Entry(stored, Some(LabelOrder[1]))>>))>>

InitStored ==
    \E c \in NotifyConfigs, stored \in StoredStocks :
        /\ users = UserRows(Some("admin@example.org"), None)
        /\ folders = <<>>
        /\ items = [i \in ItemIds |->
                       IF i = 1
                       THEN StoredItem(NewItem(OwnerOf(i), TRUE, c.enabled, c.threshold),
                                       stored)
                       ELSE NewItem(OwnerOf(i), TRUE, TRUE, Some(1))]
        /\ snapshots = [i \in ItemIds |->
                           IF i = 1 THEN StoredSnapshots(stored) ELSE <<>>]
        /\ CHECK_RUNNING = [u \in UserIds |-> None]
        /\ now = 0
        /\ th = [t \in ThreadIds |-> Idle]
        /\ notified = {}
        /\ attempts = [i \in ItemIds |-> 0]
        /\ lastCheck = NoCheck
        /\ lastBatch = NoBatch
        /\ lastTrigger = NoTrigger

-----------------------------------------------------------------------------
(* app/dashboard/routes.py: the "check running" tracking *)

\* Mutant of IsRunning: the guard never sees a running batch.
C9_NeverRunningMutant(user_id) == FALSE

\* _is_running, under _CHECK_LOCK
IsRunning(user_id) == ~IsNone(CHECK_RUNNING[user_id])

\* _set_running, under _CHECK_LOCK
SetRunning(user_id, running) ==
    CHECK_RUNNING' = [CHECK_RUNNING EXCEPT
                         ![user_id] = IF running THEN Some(now) ELSE None]

-----------------------------------------------------------------------------
(* app/ikea_service.py: check_all_active_items *)

\* lines 250-255: Item.query.filter_by(is_active=True), narrowed to the
\* owner when a non-admin user object is given
ActiveItems(owner) ==
    {i \in DOMAIN items : items[i].is_active
                     /\ (IsNone(owner) \/ items[i].user_id = Get(owner))}
\* The argument "user" as the callers pass it: None (the webhook, and the
\* background runner for an admin), or user.id, an int (the background runner
\* for anyone else).  No caller passes a User object.
Arg(type, id) == [type |-> type, id |-> id]

\* lines 250-255.  "user is not None and not user.is_admin" reads .is_admin:
\* an int has no such attribute, and Python raises AttributeError.
SelectItems(user) ==
    IF user.type = "NoneType"
    THEN [raised |-> FALSE, items |-> SeqOfSet(ActiveItems(None))]
    ELSE IF user.type = "int"
    THEN [raised |-> TRUE, items |-> <<>>]
    ELSE IF ~is_admin(users[user.id])
    THEN [raised |-> FALSE, items |-> SeqOfSet(ActiveItems(Some(user.id)))]
    ELSE [raised |-> FALSE, items |-> SeqOfSet(ActiveItems(None))]

\* The trigger surface a batch came from.
Trigger(op) == IF op = "background" THEN "ui" ELSE "webhook"

\* The record of a batch of thread t that ends now, having committed "added"
\* snapshots.
BatchEnded(t, outcome, added) ==
    [trigger |-> Trigger(th[t].op), actor |-> th[t].user, scope |-> th[t].scope,
     attempted |-> th[t].attempted, remaining |-> th[t].todo, outcome |-> outcome,
     successes |-> th[t].successes, failures |-> th[t].failures,
     added |-> added]

\* The calls of check_item a thread has yet to make.
Reserved(t) ==
    IF th[t].pc = "node" THEN 1 + Len(th[t].todo)
    ELSE IF th[t].pc \in {"loop", "write"} THEN Len(th[t].todo)
    ELSE IF th[t].pc \in {"mark", "load"}
    THEN IF Get(th[t].user) \in DOMAIN users /\ is_admin(users[Get(th[t].user)])
         THEN Cardinality(ActiveItems(None)) ELSE 0
    ELSE 0

RECURSIVE SumReserved(_)
SumReserved(T) ==
    IF T = {} THEN 0
    ELSE LET t == CHOOSE x \in T : TRUE
         IN  Reserved(t) + SumReserved(T \ {t})

\* A request is accepted when the calls of check_item it leads to fit under
\* MaxTime; what is accepted always runs to its end.
Accepting(n) == now + SumReserved(ThreadIds) + n <= MaxTime

\* The store is SQLite (config.py line 17), which has one writer at a time.
\* A check that stays in send_email has flushed its UPDATE and INSERT (the
\* autoflush before the query of line 124) and never ends its transaction:
\* from then on the flush of any other session waits out the busy timeout
\* and raises OperationalError ("database is locked").  Reading goes on.
WriteLocked(t) == \E o \in ThreadIds \ {t} : th[o].pc = "smtp"

-----------------------------------------------------------------------------
(* Actions *)

\* items/routes.py check_single (lines 668-682) up to check_item line 177:
\* user u asks for a check of item i
CheckSingle(t, u, i) ==
    /\ u \in DOMAIN users /\ i \in DOMAIN items
    /\ Accepting(1)
    /\ th[t].op = "idle"
    /\ can_edit_items(users[u])
    /\ is_admin(users[u]) \/ items[i].user_id = u
    /\ th' = [th EXCEPT ![t] =
                 Checking("single", Some(u), i, items[i], Me(u, users[u]))]
    /\ UNCHANGED <<users, folders, items, snapshots, CHECK_RUNNING, now, notified,
                   attempts, lastCheck, lastBatch, lastTrigger>>

\* api/routes.py webhook_check with item_id (lines 35-39), up to check_item
\* line 177
WebhookCheck(t, i) ==
    /\ i \in DOMAIN items
    /\ Accepting(1)
    /\ th[t].op = "idle"
    /\ th' = [th EXCEPT ![t] = Checking("webhook", None, i, items[i], None)]
    /\ UNCHANGED <<users, folders, items, snapshots, CHECK_RUNNING, now, notified,
                   attempts, lastCheck, lastBatch, lastTrigger>>

\* Mutant of WebhookCheckAll: the webhook batch marks the admin as running.
C30_MarkingMutant(t) ==
    /\ Accepting(Len(SelectItems(Arg("NoneType", 0)).items))
    /\ th[t].op = "idle"
    /\ th' = [th EXCEPT ![t] =
                 Looping("webhook_all", None,
                         SelectItems(Arg("NoneType", 0)).items, None)]
    /\ CHECK_RUNNING' = [CHECK_RUNNING EXCEPT ![1] = Some(now)]
    /\ UNCHANGED <<users, folders, items, snapshots, now, notified,
                   attempts, lastCheck, lastBatch, lastTrigger>>

\* api/routes.py webhook_check without item (line 50): check_all_active_items()
\* up to line 257
WebhookCheckAll(t) ==
    /\ Accepting(Len(SelectItems(Arg("NoneType", 0)).items))
    /\ th[t].op = "idle"
    /\ th' = [th EXCEPT ![t] =
                 Looping("webhook_all", None,
                         SelectItems(Arg("NoneType", 0)).items, None)]
    /\ UNCHANGED <<users, folders, items, snapshots, CHECK_RUNNING, now, notified,
                   attempts, lastCheck, lastBatch, lastTrigger>>

\* api/routes.py _require_api_key (lines 8-18): the configured key and the
\* key the request carries (X-API-Key header or api_key parameter, if any)
ApiKeys == {"", "secret"}
ProvidedKeys == {None, Some(""), Some("wrong"), Some("secret")}

ApiKeyAccepted(expected, provided) ==
    /\ expected # ""
    /\ ~IsNone(provided) /\ Get(provided) # ""
    /\ Get(provided) = expected

\* POST /api/check without item_id or product_id by a caller whose key is
\* accepted (lines 29-50)
ApiCheckAll(t, expected, provided) ==
    /\ ApiKeyAccepted(expected, provided)
    /\ WebhookCheckAll(t)

\* POST /api/check by a caller whose key is not accepted: abort(403) at line
\* 14 or 18
ApiDenied(t, expected, provided) ==
    /\ th[t].op = "idle"
    /\ ~ApiKeyAccepted(expected, provided)
    /\ th' = [th EXCEPT ![t] =
                 Thread("webhook_denied", "abort", None, <<>>, None, None)]
    /\ UNCHANGED <<users, folders, items, snapshots, CHECK_RUNNING, now, notified,
                   attempts, lastCheck, lastBatch, lastTrigger>>

\* The 403 response of a denied request
ApiAbort(t) ==
    /\ th[t].op = "webhook_denied"
    /\ th' = [th EXCEPT ![t] = Idle]
    /\ UNCHANGED <<users, folders, items, snapshots, CHECK_RUNNING, now, notified,
                   attempts, lastCheck, lastBatch, lastTrigger>>

\* dashboard/routes.py check_all, lines 238-249: the guard.  A request of an
\* actor found running is answered at once; one found idle goes on to line 252.
CheckAll(t, u) ==
    /\ u \in DOMAIN users
    /\ Accepting(IF is_admin(users[u]) THEN Cardinality(ActiveItems(None)) ELSE 0)
    /\ th[t].op = "idle"
    /\ can_edit_items(users[u])
    /\ IF IsRunning(u)
       THEN /\ lastTrigger' = [user |-> u, accepted |-> FALSE,
                               found_running |-> TRUE]
            /\ th' = th
       ELSE /\ th' = [th EXCEPT ![t] =
                         Thread("check_all", "mark", Some(u), <<>>, None, None)]
            /\ lastTrigger' = lastTrigger
    /\ UNCHANGED <<users, folders, items, snapshots, CHECK_RUNNING, now, notified,
                   attempts, lastCheck, lastBatch>>

\* dashboard/routes.py check_all, lines 252-259: mark the actor running and
\* start the background thread (the request thread only answers after that,
\* so the model hands its slot to the background runner)
CheckAllStart(t) ==
    /\ th[t].op = "check_all" /\ th[t].pc = "mark"
    /\ SetRunning(Get(th[t].user), TRUE)
    /\ th' = [th EXCEPT ![t] =
                 Thread("background", "load", th[t].user, <<>>, None, None)]
    /\ lastTrigger' = [user |-> Get(th[t].user), accepted |-> TRUE,
                       found_running |-> FALSE]
    /\ UNCHANGED <<users, folders, items, snapshots, now, notified,
                   attempts, lastCheck, lastBatch>>

\* dashboard/routes.py _run_check_all_in_background, lines 94-102, with
\* check_all_active_items lines 250-257
BackgroundSelect(t) ==
    /\ th[t].op = "background" /\ th[t].pc = "load"
    /\ IF Get(th[t].user) \notin DOMAIN users
       THEN \* line 94-96: User.query.get finds no row, return
            /\ th' = [th EXCEPT ![t].pc = "finally"]
            /\ lastBatch' = lastBatch
       ELSE LET user == users[Get(th[t].user)]
                sel  == IF is_admin(user)
                        THEN SelectItems(Arg("NoneType", 0))
                        ELSE SelectItems(Arg("int", Get(th[t].user)))
            IN  IF sel.raised
                THEN /\ th' = [th EXCEPT ![t].pc = "finally"]
                     /\ lastBatch' = BatchEnded(t, "raised", 0)
                ELSE /\ th' = [th EXCEPT ![t] =
                                Looping("background", th[t].user, sel.items,
                                        Me(Get(th[t].user), user))]
                     /\ lastBatch' = lastBatch
    /\ UNCHANGED <<users, folders, items, snapshots, CHECK_RUNNING, now, notified,
                   attempts, lastCheck, lastTrigger>>

\* The thread of a batch that ended: the runner goes on to its finally
\* clause, the webhook request is answered.
AfterBatch(t) ==
    IF th[t].op = "background"
    THEN Thread("background", "finally", th[t].user, <<>>, None, None)
    ELSE Idle

\* check_all_active_items line 259-260 with check_item lines 170-177: the next
\* item of the loop is handed to check_item, which reads store_ids and
\* previous_stock of the Item object.  A session that has committed reads the
\* row again; when the row is gone the read raises ObjectDeletedError, which
\* ends the batch.
BatchNext(t) ==
    /\ th[t].pc = "loop"
    /\ th[t].todo # <<>>
    /\ LET i == Head(th[t].todo)
       IN  IF th[t].expired /\ i \notin DOMAIN items
           THEN /\ attempts' = [attempts EXCEPT ![i] = @ + 1]
                /\ lastBatch' =
                      [BatchEnded(t, "raised", th[t].added) EXCEPT
                          !.attempted = Append(th[t].attempted, i),
                          !.remaining = Tail(th[t].todo)]
                /\ th' = [th EXCEPT ![t] = AfterBatch(t)]
           ELSE /\ LET row == IF th[t].expired THEN items[i] ELSE Head(th[t].rows)
                   IN  th' = [th EXCEPT ![t].pc = "node",
                                        ![t].item = Some(i),
                                        ![t].todo = Tail(th[t].todo),
                                        ![t].rows = Tail(th[t].rows),
                                        ![t].attempted = Append(th[t].attempted, i),
                                        ![t].loaded = Some(row),
                                        ![t].previous_stock = row.last_stock]
                /\ UNCHANGED <<attempts, lastBatch>>
    /\ UNCHANGED <<users, folders, items, snapshots, CHECK_RUNNING, now, notified,
                   lastCheck, lastTrigger>>

\* check_all_active_items line 266: the loop is over, the counts are returned
BatchReturn(t) ==
    /\ th[t].pc = "loop"
    /\ th[t].todo = <<>>
    /\ lastBatch' = BatchEnded(t, "returned", th[t].added)
    /\ th' = [th EXCEPT ![t] = AfterBatch(t)]
    /\ UNCHANGED <<users, folders, items, snapshots, CHECK_RUNNING, now, notified,
                   attempts, lastCheck, lastTrigger>>

\* check_item lines 179-240 and what its caller does with the result:
\* check_single and webhook_check answer; check_all_active_items counts
\* (lines 260-264) or, having no handler, lets the exception through.
\* A check whose notification reaches the mail server (smtplib.SMTP,
\* email_utils.py line 32) waits there, at pc "smtp", for as long as the
\* server takes: its session has flushed (the autoflush before the query of
\* line 124), nothing of it is committed, and its open transaction keeps the
\* write lock of the store (WriteLocked) until the check ends.  The wait is a
\* state of its own: other threads run meanwhile, and what they try to write
\* is rejected.  With a server that stays silent the wait has no end.  A
\* notification that does not reach the server (no recipients, SMTP not
\* configured, TypeError at line 29) takes no time, and a writer that meets
\* the lock of such a check waits its turn within SQLite's busy timeout, as
\* if it had come after the check.  The flush of a check that runs while
\* another session holds the lock is rejected.  The calls of
\* _send_threshold_notification are recorded when check_item ends, and at
\* once for a message the server never answers.
CheckEnd(t, env, timestamp) ==
    /\ LET i == Get(th[t].item)
           loaded == Get(th[t].loaded)
           store == [env EXCEPT !.commit_ok = @ /\ ~WriteLocked(t)]
           r == check_item(i, loaded, i \in DOMAIN items, th[t].me, store, timestamp)
           batch == th[t].op \in {"webhook_all", "background"}
           waits == /\ th[t].pc # "smtp"
                    /\ \E n \in r.notes :
                          n.delivery \in {"delivered", "failed", "hung"}
       IN  IF waits
           THEN /\ th' = [th EXCEPT ![t].pc = "smtp",
                                    ![t].stamp = Some(timestamp),
                                    ![t].env = Some(env)]
                /\ notified' = IF r.outcome = "hung" THEN notified \cup r.notes
                               ELSE notified
                /\ UNCHANGED <<attempts, snapshots, items, lastCheck, lastBatch>>
           ELSE /\ notified' = notified \cup r.notes
                /\ attempts' = [attempts EXCEPT ![i] = @ + 1]
                /\ IF r.committed
                   THEN /\ snapshots' = [snapshots EXCEPT ![i] = AddSnapshot(@, r.snapshot)]
                        /\ items' = [items EXCEPT ![i] = WriteRow(@, loaded, r.row)]
                   ELSE UNCHANGED <<snapshots, items>>
                /\ lastCheck' =
                      [at |-> timestamp, item |-> i, op |-> th[t].op,
                       previous_stock |-> th[t].previous_stock,
                       notify_enabled |-> loaded.notify_enabled,
                       notify_threshold |-> loaded.notify_threshold,
                       outcome |-> r.outcome, ret_ok |-> r.ret_ok, ret_err |-> r.ret_err,
                       committed |-> r.committed, error |-> r.error,
                       total_stock |-> r.total_stock,
                       fired_above |-> r.fired_above, fired_bellow |-> r.fired_bellow,
                       data |-> RunNodeChecker(env.proc).data,
                       snapshot |-> IF r.built THEN Some(r.snapshot) ELSE None,
                       row |-> Some(r.row),
                       rejected |-> r.rejected, proc |-> Some(env.proc)]
                /\ IF ~batch
                   THEN /\ th' = [th EXCEPT ![t] = Idle]
                        /\ lastBatch' = lastBatch
                   ELSE IF r.outcome = "returned"
                   THEN /\ th' = [th EXCEPT
                                     ![t].pc = "loop",
                                     ![t].item = None,
                                     ![t].previous_stock = None,
                                     ![t].stamp = None,
                                     ![t].env = None,
                                     ![t].loaded = None,
                                     ![t].me = IF r.committed THEN None ELSE @,
                                     ![t].expired = r.committed \/ @,
                                     ![t].successes = IF r.ret_ok THEN @ + 1 ELSE @,
                                     ![t].failures = IF r.ret_ok THEN @ ELSE @ + 1,
                                     ![t].added = IF r.committed THEN @ + 1 ELSE @]
                        /\ lastBatch' = lastBatch
                   ELSE /\ lastBatch' = BatchEnded(t, "raised",
                                         th[t].added + (IF r.committed THEN 1 ELSE 0))
                        /\ th' = [th EXCEPT ![t] = AfterBatch(t)]
    /\ UNCHANGED <<users, folders, CHECK_RUNNING, lastTrigger>>

\* One call of check_item from the return of the node process to its end,
\* for a thread that runs alone: the time is read (line 180) and the rest
\* follows, up to the wait for the mail server if there is one.
CheckFinish(t, env) ==
    /\ th[t].pc = "node"
    /\ now' = now + 1
    /\ CheckEnd(t, env, now)

\* check_item lines 179-180 on their own: the node process has ended and the
\* thread reads the clock; what it goes on to write is fixed from here.
CheckStamp(t, env) ==
    /\ th[t].pc = "node"
    /\ now' = now + 1
    /\ th' = [th EXCEPT ![t].pc = "write",
                        ![t].stamp = Some(now),
                        ![t].env = Some(env)]
    /\ UNCHANGED <<users, folders, items, snapshots, CHECK_RUNNING, notified,
                   attempts, lastCheck, lastBatch, lastTrigger>>

\* check_item lines 182-240 of a thread that read the clock earlier: other
\* threads may have read the clock and committed in between.
CheckWrite(t) ==
    /\ th[t].pc = "write"
    /\ now' = now
    /\ CheckEnd(t, Get(th[t].env), Get(th[t].stamp))

\* send_email returns (email_utils.py lines 32-39: the server took the
\* message, or smtplib raised and the exception was logged) and check_item
\* goes on from line 224 to its end.
CheckMailed(t) ==
    /\ th[t].pc = "smtp"
    /\ Get(th[t].env).smtp # "silent"
    /\ now' = now
    /\ CheckEnd(t, Get(th[t].env), Get(th[t].stamp))

\* _run_check_all_in_background line 103-104: finally, _set_running(False)
BackgroundFinally(t) ==
    /\ th[t].op = "background" /\ th[t].pc = "finally"
    /\ SetRunning(Get(th[t].user), FALSE)
    /\ th' = [th EXCEPT ![t] = Idle]
    /\ UNCHANGED <<users, folders, items, snapshots, now, notified,
                   attempts, lastCheck, lastBatch, lastTrigger>>

\* get_live_availability_for_item (lines 279-290): (data or [], error)
get_live_availability_for_item(proc) ==
    LET r == RunNodeChecker(proc)
    IN  [data |-> IF TruthyData(r.data) THEN Get(r.data) ELSE <<>>,
         error |-> r.error]

\* items/routes.py detail, lines 564-651: user u opens the page of item i; the
\* view reads the item and its snapshots and starts the live query
Detail(t, u, i) ==
    /\ th[t].op = "idle"
    /\ u \in DOMAIN users /\ i \in DOMAIN items
    /\ is_admin(users[u]) \/ items[i].user_id = u
    /\ th' = [th EXCEPT ![t] =
                 Thread("detail", "live", Some(u), <<>>, Some(i), None)]
    /\ UNCHANGED <<users, folders, items, snapshots, CHECK_RUNNING, now, notified,
                   attempts, lastCheck, lastBatch, lastTrigger>>

\* Mutant of DetailLive: the live query records what it got, as a check does.
C23_RecordingMutant(t, proc) ==
    /\ th[t].op = "detail" /\ th[t].pc = "live"
    /\ snapshots' = [snapshots EXCEPT ![Get(th[t].item)] =
                        Append(@, Snapshot(now, None,
                                           ErrorSummary(RunNodeChecker(proc).error),
                                           None))]
    /\ th' = [th EXCEPT ![t].pc = "render",
                        ![t].env = Some(get_live_availability_for_item(proc))]
    /\ UNCHANGED <<users, folders, items, CHECK_RUNNING, now, notified,
                   attempts, lastCheck, lastBatch, lastTrigger>>

\* detail line 652: the node process of the live query ends; the view holds
\* live_data and live_error
DetailLive(t, proc) ==
    /\ th[t].op = "detail" /\ th[t].pc = "live"
    /\ th' = [th EXCEPT ![t].pc = "render",
                        ![t].env = Some(get_live_availability_for_item(proc))]
    /\ UNCHANGED <<users, folders, items, snapshots, CHECK_RUNNING, now, notified,
                   attempts, lastCheck, lastBatch, lastTrigger>>

\* detail lines 654-665: the page is rendered and the request ends
DetailRender(t) ==
    /\ th[t].op = "detail" /\ th[t].pc = "render"
    /\ th' = [th EXCEPT ![t] = Idle]
    /\ UNCHANGED <<users, folders, items, snapshots, CHECK_RUNNING, now, notified,
                   attempts, lastCheck, lastBatch, lastTrigger>>

\* items/routes.py delete_item, lines 327-336: user u asks to delete item i;
\* the handler reads the item and its owner, and marks the item for deletion
\* in the session
DeleteItem(t, u, i) ==
    /\ th[t].op = "idle"
    /\ u \in DOMAIN users /\ i \in DOMAIN items
    /\ can_edit_items(users[u])
    /\ is_admin(users[u]) \/ items[i].user_id = u
    /\ th' = [th EXCEPT ![t] =
                 [Thread("delete_item", "commit", Some(u), <<i>>, None, None)
                     EXCEPT !.owner = Some(items[i].user_id)]]
    /\ UNCHANGED <<users, folders, items, snapshots, CHECK_RUNNING, now, notified,
                   attempts, lastCheck, lastBatch, lastTrigger>>

\* items/routes.py bulk_update with action "delete", lines 356-405: of the
\* selected ids, the items the user may modify are marked for deletion
BulkDelete(t, u, S) ==
    /\ th[t].op = "idle"
    /\ u \in DOMAIN users
    /\ can_edit_items(users[u])
    /\ LET sel == {i \in S \cap DOMAIN items :
                      is_admin(users[u]) \/ items[i].user_id = u}
       IN  /\ sel # {}
           /\ th' = [th EXCEPT ![t] =
                        Thread("bulk_delete", "commit", Some(u), SeqOfSet(sel),
                               None, None)]
    /\ UNCHANGED <<users, folders, items, snapshots, CHECK_RUNNING, now, notified,
                   attempts, lastCheck, lastBatch, lastTrigger>>

\* The id SQLite gives a new row of a table whose key is INTEGER PRIMARY KEY:
\* one more than the greatest id in the table.
NextId(rows) ==
    IF DOMAIN rows = {} THEN 1
    ELSE (CHOOSE m \in DOMAIN rows : \A k \in DOMAIN rows : k <= m) + 1

\* A table with one more row, of the id SQLite gives it.
Inserted(rows, row) ==
    [i \in DOMAIN rows \cup {NextId(rows)} |->
        IF i \in DOMAIN rows THEN rows[i] ELSE row]

\* The folder names a form carries (stripped by the handler): none, or one.
FolderNames == {"", "garden"}

\* items/routes.py _get_or_create_folder_for_user (lines 42-63), called in a
\* request of account a for the owner user_id, on the folders table "rows".
\* With an empty name the function returns a list (list |-> TRUE): every
\* folder, one per name, when a is an admin and the table has a row (lines
\* 44-54), the folders of a when there is one (lines 56-58).  Otherwise it
\* adds a Folder of that name and flushes (lines 59-63), whether or not the
\* owner has a folder of that name.
get_or_create_folder_for_user(rows, a, user_id, name) ==
    LET found == IF is_admin(users[a]) THEN DOMAIN rows
                 ELSE {f \in DOMAIN rows : rows[f].user_id = a}
    IN  IF name = "" /\ found # {}
        THEN [list |-> TRUE, folders |-> rows, id |-> None]
        ELSE [list |-> FALSE, folders |-> Inserted(rows, Folder(user_id, name)),
              id |-> Some(NextId(rows))]

\* items/routes.py _cleanup_empty_folders (lines 66-75) on the folders "frows"
\* and the items "irows" of the session: the folders of user_id (of everyone
\* when it is None) that hold no item are deleted.
cleanup_empty_folders(frows, irows, user_id) ==
    LET empty == {f \in DOMAIN frows :
                     /\ IsNone(user_id) \/ frows[f].user_id = Get(user_id)
                     /\ ~\E i \in DOMAIN irows : irows[i].folder_id = Some(f)}
    IN  [f \in DOMAIN frows \ empty |-> frows[f]]

\* items/routes.py edit_item (lines 264-321), POST with a valid form: user u
\* saves the configuration of item i.  Only configuration columns are written.
\* With a folder name the item moves into a new folder of its owner (line
\* 304-306), without one it leaves its folder (line 308); the folders of the
\* owner left empty are deleted (line 313).  The model creates folders as long
\* as their id is in FolderIds.
EditItem(t, u, i, active, cfg, folder_name) ==
    /\ th[t].op = "idle"
    /\ u \in DOMAIN users /\ i \in DOMAIN items
    /\ can_edit_items(users[u])
    /\ is_admin(users[u]) \/ items[i].user_id = u
    /\ folder_name # "" => NextId(folders) \in FolderIds
    /\ LET g == IF folder_name # ""
                THEN get_or_create_folder_for_user(folders, u, items[i].user_id,
                                                   folder_name)
                ELSE [list |-> FALSE, folders |-> folders, id |-> None]
           staged == [items EXCEPT ![i].is_active = active,
                                   ![i].notify_enabled = cfg.enabled,
                                   ![i].notify_threshold = cfg.threshold,
                                   ![i].folder_id = g.id]
       IN  IF WriteLocked(t)
           THEN \* the flush of line 62 or of the commit raises
                UNCHANGED <<items, folders>>
           ELSE /\ items' = staged
                /\ folders' = cleanup_empty_folders(g.folders, staged,
                                                    Some(items[i].user_id))
    /\ UNCHANGED <<users, snapshots, CHECK_RUNNING, now, th, notified,
                   attempts, lastCheck, lastBatch, lastTrigger>>

\* db.session.commit() of delete_item (line 338) and bulk_update (line 407),
\* with the _cleanup_empty_folders before it (lines 337, 405), whose query
\* flushes the DELETE.  AvailabilitySnapshot.item has no delete cascade: the
\* unit of work detaches the snapshots of a deleted item by setting item_id to
\* NULL, the column is NOT NULL (models.py line 140), the store rejects the
\* flush and the request ends with the exception; nothing is deleted.  Items
\* without snapshots go, and with them the folders they leave empty: those of
\* the item's owner as the handler read it (delete_item), those of every
\* user (bulk_update).  A DELETE that matches no row, the row having been
\* deleted by another request since the handler read it, is no error (the
\* mapper has no version column: SQLAlchemy warns and goes on), and the
\* cleanup and the commit follow as for a row that was there.  While another
\* session holds the write lock the flush raises and nothing is deleted.
DeleteCommit(t) ==
    /\ th[t].pc = "commit"
    /\ IF WriteLocked(t) \/ \E i \in Range(th[t].todo) : snapshots[i] # <<>>
       THEN UNCHANGED <<items, folders>>
       ELSE LET left == [i \in DOMAIN items \ Range(th[t].todo) |-> items[i]]
            IN  /\ items' = left
                /\ folders' = cleanup_empty_folders(folders, left,
                                  IF th[t].op = "bulk_delete" THEN None
                                  ELSE th[t].owner)
    /\ th' = [th EXCEPT ![t] = Idle]
    /\ UNCHANGED <<users, snapshots, CHECK_RUNNING, now, notified,
                   attempts, lastCheck, lastBatch, lastTrigger>>

\* users/routes.py delete_user (lines 87-101): admin a deletes user u.  The
\* account named "admin" is refused (line 94).  The commit of a user who still
\* owns items or folders is rejected (items.user_id and folders.user_id are
\* NOT NULL and the relationships User.items and Folder.user have no delete
\* cascade: the unit of work sets the column to NULL), and nothing changes;
\* so is any commit while another session holds the write lock.
DeleteUser(t, a, u) ==
    /\ th[t].op = "idle"
    /\ a \in DOMAIN users /\ is_admin(users[a])
    /\ u \in DOMAIN users
    /\ users[u].username # "admin"
    /\ IF \/ WriteLocked(t)
          \/ \E i \in DOMAIN items : items[i].user_id = u
          \/ \E f \in DOMAIN folders : folders[f].user_id = u
       THEN users' = users
       ELSE users' = [x \in DOMAIN users \ {u} |-> users[x]]
    /\ UNCHANGED <<folders, items, snapshots, CHECK_RUNNING, now, th, notified,
                   attempts, lastCheck, lastBatch, lastTrigger>>

\* The values of the "role" field of the user form, and one more text (the
\* code stores whatever the request carries).
Roles == {"admin", "user", "viewer"}

\* users/routes.py add_user (lines 33-59), POST with a username and a
\* password: admin a creates an account, unless the username is taken
\* (line 48) or the commit is rejected (another session holds the write
\* lock).  The model creates accounts as long as their id is in UserIds.
AddUser(t, a, username, role, email) ==
    /\ th[t].op = "idle"
    /\ a \in DOMAIN users /\ is_admin(users[a])
    /\ NextId(users) \in UserIds
    /\ username # ""
    /\ IF \/ \E u \in DOMAIN users : users[u].username = username
          \/ WriteLocked(t)
       THEN users' = users
       ELSE users' = [u \in DOMAIN users \cup {NextId(users)} |->
                         IF u \in DOMAIN users THEN users[u]
                         ELSE [username |-> username, role |-> role,
                               email |-> email]]
    /\ UNCHANGED <<folders, items, snapshots, CHECK_RUNNING, now, th, notified,
                   attempts, lastCheck, lastBatch, lastTrigger>>

\* users/routes.py edit_user (lines 62-84), POST: admin a saves the role and
\* the email of user u (any account, the default admin and a itself
\* included), unless another session holds the write lock.
EditUser(t, a, u, role, email) ==
    /\ th[t].op = "idle"
    /\ a \in DOMAIN users /\ is_admin(users[a])
    /\ u \in DOMAIN users
    /\ users' = IF WriteLocked(t) THEN users
                 ELSE [users EXCEPT ![u].role = role, ![u].email = email]
    /\ UNCHANGED <<folders, items, snapshots, CHECK_RUNNING, now, th, notified,
                   attempts, lastCheck, lastBatch, lastTrigger>>

\* items/routes.py add_item (lines 206-261), POST with a valid form (name,
\* product and country given, the threshold empty or an integer): user u
\* creates an item in the folder line 236 gets.  When that is a list,
\* Item(folder=...) raises AttributeError (line 238, a list is no mapped
\* object) and the request ends without a commit; so it does when the flush
\* of line 62 is rejected (another session holds the write lock).  Otherwise
\* the item and its new folder are committed.  The model creates items and folders as long as
\* their ids are in ItemIds and FolderIds; a new item has no check_item call
\* behind it.
AddItem(t, u, active, cfg, folder_name) ==
    /\ th[t].op = "idle"
    /\ u \in DOMAIN users
    /\ can_edit_items(users[u])
    /\ LET g == get_or_create_folder_for_user(folders, u, u, folder_name)
       IN  IF g.list \/ WriteLocked(t)
           THEN UNCHANGED <<folders, items, attempts>>
           ELSE /\ NextId(items) \in ItemIds
                /\ NextId(folders) \in FolderIds
                /\ folders' = g.folders
                /\ items' = Inserted(items,
                                [NewItem(u, active, cfg.enabled, cfg.threshold)
                                    EXCEPT !.folder_id = g.id])
                /\ attempts' = [attempts EXCEPT ![NextId(items)] = 0]
    /\ UNCHANGED <<users, snapshots, CHECK_RUNNING, now, th, notified,
                   lastCheck, lastBatch, lastTrigger>>

\* The items of the selection S a user may modify (bulk_update lines 376-380,
\* bulk_edit_submit lines 463-473): all of them for an admin, the user's own
\* for anyone else.
Selected(u, S) ==
    {i \in S \cap DOMAIN items : is_admin(users[u]) \/ items[i].user_id = u}

\* items/routes.py bulk_update with action "activate" or "deactivate" (lines
\* 356-407): is_active is set on the selected items the user may modify,
\* unless the commit is rejected (another session holds the write lock).
BulkSetActive(t, u, S, active) ==
    /\ th[t].op = "idle"
    /\ u \in DOMAIN users
    /\ can_edit_items(users[u])
    /\ Selected(u, S) # {}
    /\ items' = [i \in DOMAIN items |->
                    IF i \in Selected(u, S) /\ ~WriteLocked(t)
                    THEN [items[i] EXCEPT !.is_active = active]
                    ELSE items[i]]
    /\ UNCHANGED <<users, folders, snapshots, CHECK_RUNNING, now, th, notified,
                   attempts, lastCheck, lastBatch, lastTrigger>>

\* bulk_edit_submit lines 488-496 on the tables "st" of the session: each item
\* of "ids" in turn gets the form's settings and, with a folder name, a new
\* folder of its own.
RECURSIVE BulkEdited(_, _, _, _, _, _)
BulkEdited(st, ids, a, active, cfg, folder_name) ==
    IF ids = <<>> THEN st
    ELSE LET i == Head(ids)
             g == IF folder_name # ""
                  THEN get_or_create_folder_for_user(st.folders, a,
                           st.items[i].user_id, folder_name)
                  ELSE [list |-> FALSE, folders |-> st.folders, id |-> None]
         IN  BulkEdited([folders |-> g.folders,
                         items |-> [st.items EXCEPT
                                       ![i].is_active = active,
                                       ![i].notify_enabled = cfg.enabled,
                                       ![i].notify_threshold = cfg.threshold,
                                       ![i].folder_id = g.id]],
                        Tail(ids), a, active, cfg, folder_name)

\* items/routes.py bulk_edit_submit (lines 457-502), with a threshold that is
\* empty or an integer: the form's is_active, notify_enabled and
\* notify_threshold are written to every selected item the user may modify,
\* and the empty folders of the owner of the first of them are deleted (line
\* 498); nothing is written when the flush is rejected (another session holds
\* the write lock).
BulkEditSubmit(t, u, S, active, cfg, folder_name) ==
    /\ th[t].op = "idle"
    /\ u \in DOMAIN users
    /\ can_edit_items(users[u])
    /\ Selected(u, S) # {}
    /\ LET ids == SeqOfSet(Selected(u, S))
           st  == BulkEdited([folders |-> folders, items |-> items], ids, u,
                             active, cfg, folder_name)
       IN  /\ DOMAIN st.folders \subseteq FolderIds
           /\ IF WriteLocked(t)
              THEN UNCHANGED <<items, folders>>
              ELSE /\ items' = st.items
                   /\ folders' = cleanup_empty_folders(st.folders, st.items,
                                      Some(items[ids[1]].user_id))
    /\ UNCHANGED <<users, snapshots, CHECK_RUNNING, now, th, notified,
                   attempts, lastCheck, lastBatch, lastTrigger>>

\* str(val).strip().lower() on the texts the model uses for the cells of an
\* imported table.
LowerStrip(s) ==
    IF s = "YES" THEN "yes"
    ELSE IF s = " on " THEN "on"
    ELSE IF s = " " THEN ""
    ELSE s

\* _cast_bool (lines 121-125)
cast_bool(val) == LowerStrip(val) \in {"1", "true", "yes", "y", "on"}

\* _cast_int (lines 128-134): int(float(text)), None for an empty cell and
\* for a text that is no number.
cast_int(val) ==
    IF LowerStrip(val) = "" THEN None
    ELSE IF val = "1" THEN Some(1)
    ELSE IF val = "1.9" THEN Some(1)
    ELSE IF val = "2" THEN Some(2)
    ELSE None

\* A row of an uploaded table: whether it has a name, a product id and a
\* country, and the cells mapped to is_active, notify_enabled and
\* notify_threshold.
ImportRow(named, active, enabled, threshold) ==
    [named |-> named, active |-> active, enabled |-> enabled,
     threshold |-> threshold]

\* import_submit lines 851-913: the rows of the table from the first on, each
\* skipped (line 863-865) or staged as an Item of user u in the folder of the
\* import (None, or the id of its new folder).
RECURSIVE Imported(_, _, _, _)
Imported(rows, u, table, folder_id) ==
    IF table = <<>> THEN rows
    ELSE Imported(IF Head(table).named
                  THEN Inserted(rows,
                           [NewItem(u, cast_bool(Head(table).active),
                                    cast_bool(Head(table).enabled),
                                    cast_int(Head(table).threshold))
                               EXCEPT !.folder_id = folder_id])
                  ELSE rows,
                  u, Tail(table), folder_id)

\* items/routes.py import_submit (lines 804-919), every column mapped: user u
\* imports the rows of an uploaded table, into no folder or (folder_mode
\* "new" or "existing" with a name) into a new folder of that name, which line
\* 849 adds before the rows are read and line 913 commits, whatever the rows;
\* nothing is written when the flush is rejected (another session holds the
\* write lock).
\* The model imports tables whose items get ids in ItemIds.
ImportSubmit(t, u, table, folder_name) ==
    /\ th[t].op = "idle"
    /\ u \in DOMAIN users
    /\ can_edit_items(users[u])
    /\ table # <<>>
    /\ folder_name # "" => NextId(folders) \in FolderIds
    /\ LET g == IF folder_name # ""
                THEN get_or_create_folder_for_user(folders, u, u, folder_name)
                ELSE [list |-> FALSE, folders |-> folders, id |-> None]
       IN  /\ DOMAIN Imported(items, u, table, g.id) \subseteq ItemIds
           /\ IF WriteLocked(t)
              THEN UNCHANGED <<items, folders>>
              ELSE /\ items' = Imported(items, u, table, g.id)
                   /\ folders' = g.folders
    /\ attempts' = [i \in ItemIds |->
                       IF i \in DOMAIN items' \ DOMAIN items THEN 0 ELSE attempts[i]]
    /\ UNCHANGED <<users, snapshots, CHECK_RUNNING, now, th, notified,
                   lastCheck, lastBatch, lastTrigger>>

\* A thread of a process that is inside create_app, and one of a process
\* whose create_app raised.
Booting == Thread("create_app", "boot", None, <<>>, None, None)
Down == Thread("create_app", "raised", None, <<>>, None, None)

\* app/__init__.py create_app, lines 58-60, of a process that starts for the
\* first time or is started again between two requests: db.create_all() and
\* create_default_admin().  When create_default_admin raises, create_app
\* raises and the process serves no request.  CHECK_RUNNING is a dict of the
\* process and starts empty.
CreateApp ==
    /\ \/ \A t \in ThreadIds : th[t] = Idle
       \/ \A t \in ThreadIds : th[t] = Booting
    /\ users' = create_default_admin(users).users
    /\ th' = [t \in ThreadIds |->
                 IF create_default_admin(users).raised THEN Down ELSE Idle]
    /\ CHECK_RUNNING' = [u \in UserIds |-> None]
    /\ UNCHANGED <<folders, items, snapshots, now, notified,
                   attempts, lastCheck, lastBatch, lastTrigger>>

\* The environment of the concurrent specification: the node process times
\* out, or reports MaxStock in one store.
SmallOutcomes ==
    {Proc(TRUE, 0, "", TRUE, FALSE, <<>>),
     Proc(FALSE, 0, "", FALSE, TRUE, <<Entry(Some(MaxStock), Some(LabelOrder[1]))>>)}

\* The steps of a thread up to the end of the node process of a check, and
\* after the check.
Step(t) ==
    \/ \E u \in UserIds, i \in ItemIds : CheckSingle(t, u, i)
    \/ \E i \in ItemIds : WebhookCheck(t, i)
    \/ WebhookCheckAll(t)
    \/ \E u \in UserIds : CheckAll(t, u)
    \/ CheckAllStart(t)
    \/ BackgroundSelect(t)
    \/ BatchNext(t)
    \/ BatchReturn(t)
    \/ BackgroundFinally(t)

\* Batches on two request threads, started by the webhook and by the UI
\* trigger, in a small environment: mail is delivered and the store accepts
\* every commit.  A thread reads the clock and writes in two steps, between
\* which the other thread runs.
Next ==
    \E t \in ThreadIds :
        \/ WebhookCheckAll(t)
        \/ \E u \in UserIds : CheckAll(t, u)
        \/ CheckAllStart(t)
        \/ BackgroundSelect(t)
        \/ BatchNext(t)
        \/ BatchReturn(t)
        \/ BackgroundFinally(t)
        \/ \E env \in Envs(SmallOutcomes, {"sent"}, {TRUE}) : CheckStamp(t, env)
        \/ CheckWrite(t)
        \/ CheckMailed(t)

Spec == Init /\ [][Next]_vars

\* One request at a time, every outcome of the node process.
NextSeq ==
    \/ Step(1)
    \/ \E env \in Envs(ProcOutcomes, {"sent"}, {TRUE}) : CheckFinish(1, env)
    \/ CheckMailed(1)

SpecSeq == InitSeq /\ [][NextSeq]_vars

\* Single-item checks, one at a time, on a database that holds earlier
\* observations.
NextStored ==
    \/ \E u \in UserIds, i \in ItemIds : CheckSingle(1, u, i)
    \/ \E i \in ItemIds : WebhookCheck(1, i)
    \/ \E env \in Envs(ProcOutcomes, {"sent"}, {TRUE}) : CheckFinish(1, env)
    \/ CheckMailed(1)

SpecStored == InitStored /\ [][NextStored]_vars

\* The first check of a freshly created item, on every response of
\* RichResponses and every way the node process fails.
ParseOutcomes ==
    {Proc(TRUE, 0, "", TRUE, FALSE, <<>>),
     Proc(FALSE, 1, "", TRUE, FALSE, <<>>),
     Proc(FALSE, 0, "", FALSE, FALSE, <<>>),
     Proc(FALSE, 0, "", TRUE, FALSE, <<>>)}
    \cup {Proc(FALSE, 0, "", FALSE, TRUE, d) : d \in RichResponses}

InitParse ==
    InitWith([i \in ItemIds |-> TRUE],
             [i \in ItemIds |-> [enabled |-> TRUE, threshold |-> Some(1)]])

NextParse ==
    \/ \E u \in UserIds, i \in ItemIds : now = 0 /\ CheckSingle(1, u, i)
    \/ \E i \in ItemIds : now = 0 /\ WebhookCheck(1, i)
    \/ \E env \in Envs(ParseOutcomes, {"sent"}, {TRUE}) : CheckFinish(1, env)
    \/ CheckMailed(1)

SpecParse == InitParse /\ [][NextParse]_vars

\* Requests served one at a time: checks, webhook batches, edits, page views
\* and deletions, the node process timing out or reporting MaxStock, the store
\* accepting or rejecting a commit.
OpsEnvs == Envs(SmallOutcomes, {"sent"}, BOOLEAN)

\* The forms submitted to edit_item: the item is paused, or its notification
\* is switched off.
EditForms ==
    {[active |-> FALSE, cfg |-> [enabled |-> TRUE, threshold |-> Some(1)]],
     [active |-> TRUE, cfg |-> [enabled |-> FALSE, threshold |-> None]]}

NextOps ==
    \/ \E u \in UserIds, i \in ItemIds : CheckSingle(1, u, i)
    \/ WebhookCheckAll(1)
    \/ BatchNext(1)
    \/ BatchReturn(1)
    \/ \E env \in OpsEnvs : CheckFinish(1, env)
    \/ CheckMailed(1)
    \/ \E u \in UserIds, i \in ItemIds, form \in EditForms :
          EditItem(1, u, i, form.active, form.cfg, "")
    \/ \E u \in UserIds, i \in ItemIds : Detail(1, u, i)
    \/ \E proc \in SmallOutcomes : DetailLive(1, proc)
    \/ DetailRender(1)
    \/ \E u \in UserIds, i \in ItemIds : DeleteItem(1, u, i)
    \/ \E u \in UserIds, S \in SUBSET ItemIds : BulkDelete(1, u, S)
    \/ DeleteCommit(1)

SpecOps == InitParse /\ [][NextOps]_vars

\* The tables uploaded to import_submit: one row that names an item, and a
\* row without a name followed by one that names an item.
ImportTables ==
    {<<ImportRow(TRUE, "YES", " on ", "1.9")>>,
     <<ImportRow(FALSE, "1", "1", "2"), ImportRow(TRUE, "true", "off", " ")>>}

\* The items table as it comes and goes, one request at a time: items are
\* added, imported and deleted in bulk, and checked in between.  The forms
\* leave the folder field empty: add_item creates the folder "" of an account
\* that has none and fails for one that has.
NextItems ==
    \/ \E u \in UserIds, i \in ItemIds : CheckSingle(1, u, i)
    \* the node process times out, the store accepting or rejecting the
    \* commit, or reports MaxStock
    \/ \E env \in {e \in OpsEnvs : e.commit_ok \/ e.proc.timed_out} :
          CheckFinish(1, env)
    \/ CheckMailed(1)
    \/ \E u \in UserIds, form \in EditForms :
          AddItem(1, u, form.active, form.cfg, "")
    \/ \E u \in UserIds, table \in ImportTables : ImportSubmit(1, u, table, "")
    \/ \E u \in UserIds, S \in SUBSET ItemIds : BulkDelete(1, u, S)
    \/ DeleteCommit(1)

SpecItems == InitParse /\ [][NextItems]_vars

\* The folders table as it comes and goes, one request at a time and without
\* checks: items are added, imported (also from a table whose only row has no
\* name, which import_submit skips), edited and deleted with and without a
\* folder name, and an administrator deletes accounts.
NextFolders ==
    \/ \E u \in UserIds, name \in FolderNames :
          AddItem(1, u, TRUE, [enabled |-> TRUE, threshold |-> Some(1)], name)
    \/ \E u \in UserIds,
          table \in ImportTables \cup {<<ImportRow(FALSE, "1", "1", "2")>>},
          name \in FolderNames : ImportSubmit(1, u, table, name)
    \/ \E u \in UserIds, i \in ItemIds, name \in FolderNames :
          EditItem(1, u, i, TRUE, [enabled |-> TRUE, threshold |-> Some(1)], name)
    \/ \E u \in UserIds, S \in SUBSET ItemIds, name \in FolderNames :
          BulkEditSubmit(1, u, S, TRUE, [enabled |-> TRUE, threshold |-> Some(1)],
                         name)
    \/ \E u \in UserIds, i \in ItemIds : DeleteItem(1, u, i)
    \/ \E u \in UserIds, S \in SUBSET ItemIds : BulkDelete(1, u, S)
    \/ DeleteCommit(1)
    \/ \E a \in UserIds, u \in UserIds : DeleteUser(1, a, u)

SpecFolders == InitParse /\ [][NextFolders]_vars

\* Every item in a folder is in a folder of its owner.
FoldersOfOwner ==
    \A i \in DOMAIN items :
        ~IsNone(items[i].folder_id) =>
            /\ Get(items[i].folder_id) \in DOMAIN folders
            /\ folders[Get(items[i].folder_id)].user_id = items[i].user_id

\* Checks, webhook batches and page views, one request at a time, between
\* changes of configuration: items are edited one by one and in bulk, paused
\* and resumed.  The store accepts every commit.
NextBulk ==
    \/ \E u \in UserIds, i \in ItemIds : CheckSingle(1, u, i)
    \/ WebhookCheckAll(1)
    \/ BatchNext(1)
    \/ BatchReturn(1)
    \/ \E env \in Envs(SmallOutcomes, {"sent"}, {TRUE}) : CheckFinish(1, env)
    \/ CheckMailed(1)
    \/ \E u \in UserIds, i \in ItemIds, form \in EditForms :
          EditItem(1, u, i, form.active, form.cfg, "")
    \/ \E u \in UserIds, S \in SUBSET ItemIds, active \in BOOLEAN :
          BulkSetActive(1, u, S, active)
    \/ \E u \in UserIds, S \in SUBSET ItemIds, form \in EditForms :
          BulkEditSubmit(1, u, S, form.active, form.cfg, "")
    \/ \E u \in UserIds, i \in ItemIds : Detail(1, u, i)
    \/ \E proc \in SmallOutcomes : DetailLive(1, proc)
    \/ DetailRender(1)

SpecBulk == InitParse /\ [][NextBulk]_vars

\* The address an account gets in the user form.
Address(u) == IF u = 1 THEN "admin@example.org" ELSE "user@example.org"

\* Checks and webhook batches, one request at a time, with accounts that have
\* or lack an email address, a mail system that delivers, is not configured,
\* fails or stays silent, and a store that accepts or rejects the commit.
\* Meanwhile an administrator manages the accounts in requests of a second
\* thread, and the process is started again.  The account requests read no clock and write no
\* item, so that a check's reading of the clock and its writing are one step.
\* Item 1 exists; item 2 exists or user 2 owns nothing.
InitMail ==
    \E adminEmail \in {None, Some(Address(1))},
       userEmail \in {None, Some(Address(2))},
       D \in {{1}, ItemIds} :
        /\ users = UserRows(adminEmail, userEmail)
        /\ folders = <<>>
        /\ items = [i \in D |-> NewItem(OwnerOf(i), TRUE, TRUE, Some(1))]
        /\ snapshots = [i \in ItemIds |-> <<>>]
        /\ CHECK_RUNNING = [u \in UserIds |-> None]
        /\ now = 0
        /\ th = [t \in ThreadIds |-> Idle]
        /\ notified = {}
        /\ attempts = [i \in ItemIds |-> 0]
        /\ lastCheck = NoCheck
        /\ lastBatch = NoBatch
        /\ lastTrigger = NoTrigger

\* A new deployment: the tables are empty and the process is in create_app.
InitFresh ==
    /\ users = <<>>
    /\ folders = <<>>
    /\ items = <<>>
    /\ snapshots = [i \in ItemIds |-> <<>>]
    /\ CHECK_RUNNING = [u \in UserIds |-> None]
    /\ now = 0
    /\ th = [t \in ThreadIds |-> Booting]
    /\ notified = {}
    /\ attempts = [i \in ItemIds |-> 0]
    /\ lastCheck = NoCheck
    /\ lastBatch = NoBatch
    /\ lastTrigger = NoTrigger

\* A new deployment, or a database with accounts and items whose process is
\* up.
InitAccounts == InitFresh \/ InitMail

NextMail ==
    \/ \E u \in UserIds, i \in ItemIds : CheckSingle(1, u, i)
    \/ \E i \in ItemIds : WebhookCheck(1, i)
    \/ WebhookCheckAll(1)
    \/ BatchNext(1)
    \/ BatchReturn(1)
    \/ \E env \in Envs(SmallOutcomes, SmtpOutcomes, BOOLEAN) : CheckFinish(1, env)
    \/ CheckMailed(1)
    \/ \E a \in UserIds, role \in Roles, email \in {None, Some(Address(2))} :
          AddUser(2, a, "user", role, email)
    \/ \E a \in UserIds, u \in DOMAIN users, role \in {"admin", "user"} :
          EditUser(2, a, u, role, users[u].email)
    \/ \E a \in UserIds, u \in UserIds : DeleteUser(2, a, u)
    \/ CreateApp

SpecMail == InitAccounts /\ [][NextMail]_vars

\* Checks, one at a time, on every way the node process can end: a timeout,
\* a failed exit with or without text on stderr (and with or without a
\* parseable stdout), output that is no JSON, empty output, an empty list, a
\* list of records, and JSON that is no list: null, {} and an object with a
\* key.
NodeOutcomes ==
    {Proc(TRUE, 0, "", TRUE, FALSE, <<>>),
     Proc(FALSE, 1, "", TRUE, FALSE, <<>>),
     Proc(FALSE, 1, "\n", TRUE, FALSE, <<>>),
     Proc(FALSE, 1, "boom\n", TRUE, FALSE, <<>>),
     Proc(FALSE, 2, "boom\n", FALSE, TRUE, <<Entry(Some(MaxStock), Some(LabelOrder[1]))>>),
     Proc(FALSE, 0, "", FALSE, FALSE, <<>>),
     Proc(FALSE, 0, "boom\n", FALSE, FALSE, <<>>),
     Proc(FALSE, 0, "", TRUE, FALSE, <<>>),
     Proc(FALSE, 0, "", FALSE, TRUE, <<>>),
     Proc(FALSE, 0, "", FALSE, TRUE, <<Entry(Some(0), None)>>),
     Proc(FALSE, 0, "boom\n", FALSE, TRUE, <<Entry(Some(MaxStock), Some(LabelOrder[1]))>>),
     [Proc(FALSE, 0, "", FALSE, TRUE, <<>>) EXCEPT !.type = "NoneType"],
     [Proc(FALSE, 0, "", FALSE, TRUE, <<>>) EXCEPT !.type = "dict"],
     [Proc(FALSE, 0, "", FALSE, TRUE, <<[key |-> "error"]>>) EXCEPT !.type = "dict"]}

NextNode ==
    \/ \E u \in UserIds, i \in ItemIds : CheckSingle(1, u, i)
    \/ \E i \in ItemIds : WebhookCheck(1, i)
    \/ \E env \in Envs(NodeOutcomes, {"sent"}, {TRUE}) : CheckFinish(1, env)
    \/ CheckMailed(1)

SpecNode == InitParse /\ [][NextNode]_vars

\* Checks on a database that holds an earlier observation of item 1, the
\* node process printing nothing, an empty list or one record, or timing out.
EmptyOutcomes ==
    {Proc(TRUE, 0, "", TRUE, FALSE, <<>>),
     Proc(FALSE, 0, "", TRUE, FALSE, <<>>),
     Proc(FALSE, 0, "", FALSE, TRUE, <<>>),
     Proc(FALSE, 0, "", FALSE, TRUE, <<Entry(Some(MaxStock), Some(LabelOrder[1]))>>)}

NextEmpty ==
    \/ \E u \in UserIds, i \in ItemIds : CheckSingle(1, u, i)
    \/ \E i \in ItemIds : WebhookCheck(1, i)
    \/ \E env \in Envs(EmptyOutcomes, {"sent"}, {TRUE}) : CheckFinish(1, env)
    \/ CheckMailed(1)

SpecEmpty == InitStored /\ [][NextEmpty]_vars

\* Checks of two request threads that overlap: each thread reads the clock
\* when its node process ends and writes later, so that the other thread can
\* read the clock and commit in between.  Item 2 is active or paused, so that
\* a batch over item 1 alone leaves room for a single check of item 1.
InitRace ==
    \E active \in BOOLEAN :
        InitWith([i \in ItemIds |-> i = 1 \/ active],
                 [i \in ItemIds |-> [enabled |-> TRUE, threshold |-> Some(1)]])

\* The same, on a database that may hold one observation of item 1 written
\* before the clock of the model starts: a check whose node process timed out.
InitRaceStored ==
    \E active \in BOOLEAN, stored \in BOOLEAN :
        LET before == CheckItemFailed(NewItem(OwnerOf(1), TRUE, TRUE, Some(1)),
                                      Some("Node process timed out."), 0 - 1)
        IN  /\ users = UserRows(Some("admin@example.org"), None)
            /\ folders = <<>>
            /\ items = [i \in ItemIds |->
                           IF i = 1 /\ stored THEN before.row
                           ELSE NewItem(OwnerOf(i), i = 1 \/ active, TRUE, Some(1))]
            /\ snapshots = [i \in ItemIds |->
                               IF i = 1 /\ stored THEN <<before.snapshot>> ELSE <<>>]
            /\ CHECK_RUNNING = [u \in UserIds |-> None]
            /\ now = 0
            /\ th = [t \in ThreadIds |-> Idle]
            /\ notified = {}
            /\ attempts = [i \in ItemIds |-> 0]
            /\ lastCheck = NoCheck
            /\ lastBatch = NoBatch
            /\ lastTrigger = NoTrigger

\* The node process times out, exits with status 1 and nothing on stderr, or
\* reports MaxStock in one store.  Meanwhile the admin switches the
\* notification of item 1 off (edit_item).
RaceEnvs ==
    Envs(SmallOutcomes \cup {Proc(FALSE, 1, "", TRUE, FALSE, <<>>)}, {"sent"}, {TRUE})

NextRace ==
    \E t \in ThreadIds :
        \/ \E u \in UserIds, i \in ItemIds : CheckSingle(t, u, i)
        \/ \E i \in ItemIds : WebhookCheck(t, i)
        \/ WebhookCheckAll(t)
        \/ BatchNext(t)
        \/ BatchReturn(t)
        \/ \E env \in RaceEnvs : CheckStamp(t, env)
        \/ CheckWrite(t)
        \/ CheckMailed(t)
        \/ EditItem(t, 1, 1, TRUE, [enabled |-> FALSE, threshold |-> None], "")

SpecRace == InitRaceStored /\ [][NextRace]_vars

\* The webhook next to the UI batch, on two request threads: webhook requests
\* with an accepted or a refused key, UI triggers and their background runners.
NextHook ==
    \E t \in ThreadIds :
        \/ \E e \in ApiKeys, p \in ProvidedKeys : ApiCheckAll(t, e, p)
        \/ \E e \in ApiKeys, p \in ProvidedKeys : ApiDenied(t, e, p)
        \/ ApiAbort(t)
        \/ \E u \in UserIds : CheckAll(t, u)
        \/ CheckAllStart(t)
        \/ BackgroundSelect(t)
        \/ BatchNext(t)
        \/ BatchReturn(t)
        \/ \E env \in Envs(SmallOutcomes, {"sent"}, {TRUE}) : CheckStamp(t, env)
        \/ CheckWrite(t)
        \/ CheckMailed(t)
        \/ BackgroundFinally(t)

SpecHook == InitRace /\ [][NextHook]_vars

\* The batch trigger and its background runner on two request threads, with
\* an administrator deleting accounts meanwhile.
\* Item 1 exists; item 2 exists or user 2 owns nothing.
InitLive ==
    \E D \in {{1}, ItemIds} :
        /\ users = UserRows(Some("admin@example.org"), None)
        /\ folders = <<>>
        /\ items = [i \in D |-> NewItem(OwnerOf(i), TRUE, TRUE, Some(1))]
        /\ snapshots = [i \in ItemIds |-> <<>>]
        /\ CHECK_RUNNING = [u \in UserIds |-> None]
        /\ now = 0
        /\ th = [t \in ThreadIds |-> Idle]
        /\ notified = {}
        /\ attempts = [i \in ItemIds |-> 0]
        /\ lastCheck = NoCheck
        /\ lastBatch = NoBatch
        /\ lastTrigger = NoTrigger

\* The environments of a check of item i: the node process of item 1 times
\* out, that of the other items reports MaxStock in one store; the mail
\* server takes the message or stays silent.
LiveEnvs(i) ==
    IF i = 1 THEN {Env(Proc(TRUE, 0, "", TRUE, FALSE, <<>>), "sent", TRUE)}
    ELSE Envs({Proc(FALSE, 0, "", FALSE, TRUE,
                    <<Entry(Some(MaxStock), Some(LabelOrder[1]))>>)},
              {"sent", "silent"}, {TRUE})

NextLive ==
    \E t \in ThreadIds :
        \/ \E u \in UserIds : CheckAll(t, u)
        \/ CheckAllStart(t)
        \/ BackgroundSelect(t)
        \/ BatchNext(t)
        \/ BatchReturn(t)
        \/ \E env \in LiveEnvs(IF th[t].pc = "node" THEN Get(th[t].item) ELSE 1) :
              CheckStamp(t, env)
        \/ CheckWrite(t)
        \/ CheckMailed(t)
        \/ BackgroundFinally(t)
        \/ \E a \in UserIds, u \in UserIds : DeleteUser(t, a, u)

\* What a thread does by itself once a trigger went past the guard: the
\* request thread goes on to start the runner, the runner (a started thread)
\* goes on, and the node process ends within NODE_SUBPROCESS_TIMEOUT seconds
\* (subprocess.run(..., timeout=...)).  A runner goes on to line 182 and
\* beyond (CheckWrite) by itself, and from send_email once the mail server
\* has answered (CheckMailed); one that reaches smtplib.SMTP with a silent
\* server is at pc "smtp", where no step of it is enabled: nothing bounds
\* that wait.
Progress(t) ==
    \/ CheckAllStart(t)
    \/ BackgroundSelect(t)
    \/ BatchNext(t)
    \/ BatchReturn(t)
    \/ \E env \in LiveEnvs(IF th[t].pc = "node" THEN Get(th[t].item) ELSE 1) :
          CheckStamp(t, env)
    \/ CheckWrite(t)
    \/ CheckMailed(t)
    \/ BackgroundFinally(t)

SpecLive ==
    InitLive /\ [][NextLive]_vars /\ \A t \in ThreadIds : WF_vars(Progress(t))

-----------------------------------------------------------------------------
(* Claims *)

\* The calls of _send_threshold_notification made by the check that ended last.
FiredNotes(direction) ==
    {n \in notified : /\ n.item = lastCheck.item
                      /\ n.timestamp = lastCheck.at
                      /\ n.direction = direction}

\* C1: after N calls of check_item on an item, whether they succeeded or
\* failed, the item has exactly N snapshots.
C1_SnapshotPerAttempt ==
    \A i \in ItemIds : Len(snapshots[i]) = attempts[i]

\* C2: the "rose above" notification of a check fires if and only if
\* notify-above is enabled, a threshold is configured, the new total is not
\* null, previous_stock is null or below the threshold, and the new total is
\* at or above the threshold.
C2_RoseAboveIff ==
    lastCheck.op # "none" =>
        ((FiredNotes("above") # {}) <=>
            /\ lastCheck.notify_enabled
            /\ ~IsNone(lastCheck.notify_threshold)
            /\ ~IsNone(lastCheck.total_stock)
            /\ \/ IsNone(lastCheck.previous_stock)
               \/ Get(lastCheck.previous_stock) < Get(lastCheck.notify_threshold)
            /\ Get(lastCheck.total_stock) >= Get(lastCheck.notify_threshold))

\* C2, its case: a check that read a stored previous_stock below the threshold
\* and a new total at or above it has notified.
C2_Witness ==
    /\ lastCheck.op # "none"
    /\ ~IsNone(lastCheck.previous_stock)
    /\ ~IsNone(lastCheck.notify_threshold)
    /\ Get(lastCheck.previous_stock) < Get(lastCheck.notify_threshold)
    /\ FiredNotes("above") # {}

\* C3: a check whose external call returned data evaluates the "fell below"
\* rule on the item's notify-below flag and below-threshold, and then completes
\* and returns (true, none).
C3_FellBelow ==
    (lastCheck.op # "none" /\ ~IsNone(lastCheck.total_stock)) =>
        /\ HasAttr("notify_bellow_enabled")
        /\ HasAttr("notify_bellow_threshold")
        /\ lastCheck.outcome = "returned"
        /\ lastCheck.ret_ok
        /\ IsNone(lastCheck.ret_err)

\* C4: between two "rose above" notifications of one item (its settings
\* unchanged) some check has recorded a total strictly below the threshold.
C4_EdgeTriggered ==
    \A n1 \in notified, n2 \in notified :
        (/\ n1.direction = "above" /\ n2.direction = "above"
         /\ n1.item = n2.item
         /\ n1.timestamp < n2.timestamp)
        => \E k \in 1..Len(snapshots[n1.item]) :
              LET sn == snapshots[n1.item][k]
              IN  /\ n1.timestamp < sn.timestamp
                  /\ sn.timestamp < n2.timestamp
                  /\ ~IsNone(sn.total_stock)
                  /\ Get(sn.total_stock) < Get(items[n1.item].notify_threshold)

\* C5: a check whose external call fails with a message appends one snapshot
\* with null total_stock and summary "ERROR: " + message, sets last_stock to
\* null, last_probability to the same string and last_checked to the check
\* time, notifies nobody and returns (false, message).
C5_FailedCheck ==
    [][(lastCheck' # lastCheck /\ TruthyError(lastCheck'.error)) =>
          LET i   == lastCheck'.item
              msg == Get(lastCheck'.error)
          IN  /\ lastCheck'.at = now
              /\ snapshots' = [snapshots EXCEPT ![i] =
                    Append(@, [timestamp |-> now, total_stock |-> None,
                               probability_summary |-> <<"ERROR: ", msg>>,
                               raw_json |-> None])]
              /\ items' = [items EXCEPT
                    ![i].last_stock = None,
                    ![i].last_probability = Some(<<"ERROR: ", msg>>),
                    ![i].last_checked = Some(now)]
              /\ notified' = notified
              /\ lastCheck'.outcome = "returned"
              /\ ~lastCheck'.ret_ok
              /\ lastCheck'.ret_err = Some(msg)]_vars

\* C5, its case: the check of an item with a stored stock has failed on
\* unparseable output (and, being stored, the stock was there to reset).
C5_Witness ==
    /\ lastCheck.op # "none"
    /\ ~IsNone(lastCheck.previous_stock)
    /\ lastCheck.error = Some("Failed to parse JSON from Node output.")
    /\ IsNone(items[lastCheck.item].last_stock)

\* C6: a batch over a non-empty selection hands every selected item to the
\* checker exactly once, also when checks fail, and returns counts that add up
\* to the number of selected items, with as many snapshots added.
C6_BatchCounts ==
    (lastBatch.trigger # "none" /\ lastBatch.scope # <<>>) =>
        /\ lastBatch.outcome = "returned"
        /\ lastBatch.attempted = lastBatch.scope
        /\ lastBatch.successes + lastBatch.failures = Len(lastBatch.scope)
        /\ lastBatch.added = Len(lastBatch.scope)

\* C7: no exception of a check leaves the batch: a batch that has handed an
\* item to the checker ends by returning, with no selected item left over.
C7_NoTruncation ==
    (lastBatch.trigger # "none" /\ lastBatch.attempted # <<>>) =>
        /\ lastBatch.outcome = "returned"
        /\ lastBatch.remaining = <<>>

\* C8: a UI batch of a non-admin actor selects exactly the active items the
\* actor owns; a webhook batch or an admin's selects exactly the active items.
C8_BatchScope ==
    lastBatch.trigger # "none" =>
        Range(lastBatch.scope) =
            IF lastBatch.trigger = "ui" /\ ~is_admin(users[Get(lastBatch.actor)])
            THEN ActiveItems(lastBatch.actor)
            ELSE ActiveItems(None)

\* C9: a trigger goes past the guard only for an actor not marked running;
\* only a trigger that went past the guard marks its actor and starts a batch;
\* a trigger answered "already running" changes neither the marks nor any
\* thread, and no check runs.
C9_GuardRejects ==
    [][/\ \A t \in ThreadIds :
             (th[t].op = "idle" /\ th'[t].op = "check_all")
             => IsNone(CHECK_RUNNING[Get(th'[t].user)])
       /\ \A u \in UserIds :
             (CHECK_RUNNING'[u] # CHECK_RUNNING[u] /\ ~IsNone(CHECK_RUNNING'[u]))
             => \E t \in ThreadIds :
                   /\ th[t].op = "check_all" /\ th[t].user = Some(u)
                   /\ th'[t].op = "background" /\ th'[t].user = Some(u)
       /\ (lastTrigger' # lastTrigger /\ lastTrigger'.found_running)
             => /\ ~IsNone(CHECK_RUNNING[lastTrigger'.user])
                /\ CHECK_RUNNING' = CHECK_RUNNING
                /\ th' = th
                /\ snapshots' = snapshots
                /\ attempts' = attempts]_vars

\* C9, its case: a trigger was answered "already running" while the batch of
\* that actor is still in its background thread.
C9_Witness ==
    /\ lastTrigger.found_running
    /\ \E t \in ThreadIds :
          th[t].op = "background" /\ th[t].user = Some(lastTrigger.user)

\* C10: at most one background batch per actor at any time.
C10_AtMostOneBatch ==
    \A u \in UserIds :
        Cardinality({t \in ThreadIds :
                        th[t].op = "background" /\ th[t].user = Some(u)}) <= 1

\* C11: every actor marked running is eventually unmarked (the actor is
\* unmarked again and again: "marked leads to unmarked"), however the batch
\* ends (normally, with failed checks, with the user record gone, or by an
\* exception); and the step that ends a background runner leaves its actor
\* unmarked, so the status query answers "not running" and the guard lets the
\* next trigger pass.
C11_Cleanup ==
    /\ \A u \in UserIds : []<>~IsRunning(u)
    /\ [][\A t \in ThreadIds :
             (th[t].op = "background" /\ th'[t].op = "idle")
             => IsNone(CHECK_RUNNING'[Get(th[t].user)])]_vars

\* The numeric stock figures of a response summed entry by entry, in tenths
\* (a number with a fractional part counts with that part; a text that reads
\* as an integer counts as that integer).
RECURSIVE C12_NumericSum(_, _)
C12_NumericSum(data, k) ==
    IF k = 0 THEN 0
    ELSE C12_NumericSum(data, k - 1)
         + (LET v == data[k].stock
            IN  IF Len(v) = 1 THEN 10 * v[1]
                ELSE IF Len(v) = 3 THEN 10 * v[2] + v[3]
                ELSE IF v = Text("2") THEN 20
                ELSE 0)

\* C12: a check to which the source returned entries is a successful check,
\* and the Snapshot it leaves in the item's history has a total_stock, also
\* found in the item's last_stock, that equals the sum of the numeric stock
\* figures of the response; a null, missing or non-numeric figure adds 0 and
\* is no error.
C12_TotalIsSum ==
    (lastCheck.op # "none" /\ TruthyData(lastCheck.data)) =>
        LET i == lastCheck.item
            total == C12_NumericSum(Get(lastCheck.data), Len(Get(lastCheck.data)))
        IN  /\ lastCheck.outcome = "returned" /\ lastCheck.ret_ok
            /\ snapshots[i] # <<>>
            /\ snapshots[i][Len(snapshots[i])].timestamp = lastCheck.at
            /\ ~IsNone(snapshots[i][Len(snapshots[i])].total_stock)
            /\ 10 * Get(snapshots[i][Len(snapshots[i])].total_stock) = total
            /\ items[i].last_stock = snapshots[i][Len(snapshots[i])].total_stock

\* The non-empty labels of a response.
C13_Labels(data) ==
    {l \in {LabelOrder[k] : k \in 1..Len(LabelOrder)} :
        \E k \in 1..Len(data) : data[k].probability = <<l>>}

\* The place of a label in the order of strings.
C13_Rank(l) == CHOOSE k \in 1..Len(LabelOrder) : LabelOrder[k] = l

\* C13: a check to which the source returned entries is a successful check,
\* and the Snapshot it leaves in the item's history has a probability_summary,
\* also found in the item's last_probability, that is "UNKNOWN" when no entry
\* carries a non-empty label, and else the labels present, each once, in
\* ascending order, joined by ", "; it depends on the set of labels only, not
\* on the order or number of the entries.
C13_SummaryIsSortedSet ==
    (lastCheck.op # "none" /\ TruthyData(lastCheck.data)) =>
        LET i == lastCheck.item
            L == C13_Labels(Get(lastCheck.data))
        IN  /\ lastCheck.outcome = "returned" /\ lastCheck.ret_ok
            /\ snapshots[i] # <<>>
            /\ snapshots[i][Len(snapshots[i])].timestamp = lastCheck.at
            /\ LET p == snapshots[i][Len(snapshots[i])].probability_summary
               IN  /\ items[i].last_probability = Some(p)
                   /\ IF L = {} THEN p = <<"UNKNOWN">>
                      ELSE /\ Len(p) = 2 * Cardinality(L) - 1
                           /\ \A k \in 1..Len(p) :
                                 IF k % 2 = 1 THEN p[k] \in L ELSE p[k] = ", "
                           /\ \A k \in 1..Len(p) :
                                 (k % 2 = 1 /\ k + 2 <= Len(p))
                                 => C13_Rank(p[k]) < C13_Rank(p[k + 2])

\* A Snapshot has a null total exactly when its summary begins with the marker.
C14_MarkerIffNull(sn) ==
    IsNone(sn.total_stock) <=> (Head(sn.probability_summary) = "ERROR: ")

\* C14: every Snapshot recorded, and the Snapshot the last check built, has a
\* null total_stock if and only if its probability_summary begins with
\* "ERROR: ".
C14_ErrorMarker ==
    /\ \A i \in ItemIds : \A k \in 1..Len(snapshots[i]) :
          C14_MarkerIffNull(snapshots[i][k])
    /\ lastCheck.op # "none" => C14_MarkerIffNull(Get(lastCheck.snapshot))

\* C14, its case: the history of an item holds the Snapshot of a failed check
\* and the last check has built a Snapshot from a response.
C14_Witness ==
    /\ \E i \in ItemIds :
          /\ snapshots[i] # <<>>
          /\ IsNone(snapshots[i][1].total_stock)
          /\ Head(snapshots[i][1].probability_summary) = "ERROR: "
    /\ lastCheck.op # "none"
    /\ ~IsNone(Get(lastCheck.snapshot).total_stock)
    /\ Get(lastCheck.snapshot).probability_summary # <<"UNKNOWN">>

\* C15: for every item, last_checked is null exactly when no Snapshot has been
\* recorded for the item.
C15_LastCheckedIffSnapshot ==
    \A i \in DOMAIN items :
        IsNone(items[i].last_checked) <=> snapshots[i] = <<>>

\* One item has a recorded check and carries its time while another item,
\* created since (it is not its first owner's), was checked without anything
\* being recorded and still has no time.
C15_Witness ==
    \E i, j \in DOMAIN items :
        /\ snapshots[i] # <<>> /\ ~IsNone(items[i].last_checked)
        /\ items[j].user_id # OwnerOf(j)
        /\ attempts[j] > 0 /\ snapshots[j] = <<>>
        /\ IsNone(items[j].last_checked)

\* C16: a deletion request, single or bulk, removes every selected item
\* together with all of its Snapshots, and leaves the Snapshots of the other
\* items as they were.
C16_DeleteRemovesSnapshots ==
    [][\A t \in ThreadIds :
          (th[t].pc = "commit" /\ th'[t].op = "idle")
          => /\ \A i \in Range(th[t].todo) :
                    i \notin DOMAIN items' /\ snapshots'[i] = <<>>
             /\ \A j \in ItemIds \ Range(th[t].todo) :
                    snapshots'[j] = snapshots[j]]_vars

\* C17: no step changes or removes a Snapshot that has been committed; the
\* history of an item only grows at its end.
C17_SnapshotsImmutable ==
    [][\A i \in ItemIds : \A k \in 1..Len(snapshots[i]) :
          k <= Len(snapshots'[i]) /\ snapshots'[i][k] = snapshots[i][k]]_vars

\* An item was edited between two recorded checks: it has two Snapshots and
\* its notification is switched off.
C17_Witness ==
    \E i \in DOMAIN items :
        /\ Len(snapshots[i]) = 2
        /\ ~items[i].notify_enabled
        /\ snapshots[i][1].timestamp # snapshots[i][2].timestamp

\* The addresses a notification about item i is meant for: those of the owner
\* and of the administrators, as far as they have an email address.
C18_Expected(i) ==
    {users[u].email :
        u \in {v \in DOMAIN users :
                 /\ ~IsNone(users[v].email)
                 /\ v = items[i].user_id \/ users[v].role = "admin"}}

\* C18: every threshold notification is addressed to exactly the owner's and
\* the administrators' addresses on file at the time of the check; with no
\* address on file nothing is handed to the mail system, and the check that
\* fired it still returns success.
C18_RecipientsExact ==
    [][\A n \in {m \in notified' \ notified : m.delivery # "unsent"} :
          /\ n.to = C18_Expected(n.item)
          /\ n.to = {} <=> n.delivery = "no_recipients"
          /\ n.to = {} => lastCheck'.outcome = "returned" /\ lastCheck'.ret_ok]_vars

\* C19: a check whose notification was not delivered, the mail system failing
\* or not being configured, still commits its Snapshot and Item updates and
\* returns (true, none), the result on which the loop of a batch goes on.
C19_DeliveryFailureHarmless ==
    \A n \in FiredNotes("above") \cup FiredNotes("bellow") :
        n.delivery \in {"failed", "skipped"}
        => /\ lastCheck.committed
           /\ lastCheck.outcome = "returned"
           /\ lastCheck.ret_ok /\ IsNone(lastCheck.ret_err)

\* C20: a check whose commit the store rejects leaves neither its Snapshot nor
\* its Item updates behind, has delivered no notification, and is reported as
\* failed: check_item returns (false, message).
C20_RejectedCommit ==
    lastCheck.rejected
    => /\ snapshots[lastCheck.item] = <<>>
          \/ snapshots[lastCheck.item][Len(snapshots[lastCheck.item])]
                # Get(lastCheck.snapshot)
       /\ items[lastCheck.item] # Get(lastCheck.row)
       /\ \A n \in FiredNotes("above") \cup FiredNotes("bellow") :
             n.delivery # "delivered"
       /\ lastCheck.outcome = "returned" /\ ~lastCheck.ret_ok

\* C21: for every item, the Snapshots in the order of their insertion have
\* non-decreasing timestamps.
C21_TimestampsOrdered ==
    \A i \in ItemIds : \A k \in 1..(Len(snapshots[i]) - 1) :
        snapshots[i][k].timestamp <= snapshots[i][k + 1].timestamp

\* The message the claim names for a node process that failed.
C22_Message(p) ==
    IF p.timed_out THEN "Node process timed out."
    ELSE IF p.returncode # 0
    THEN (IF p.stderr \in {"", "\n"} THEN "Node process failed."
          ELSE IF p.stderr = "boom\n" THEN "boom" ELSE p.stderr)
    ELSE "Failed to parse JSON from Node output."

\* C22: the invocation of the source hands back either data and no error or
\* an error message and no data, never both and never neither; a timeout, a
\* failed exit and unparseable output each give their message, and the check
\* then records a failed Snapshot and returns (false, that message).
C22_FailureContract ==
    lastCheck.op # "none"
    => LET p == Get(lastCheck.proc)
           failed == \/ p.timed_out
                     \/ p.returncode # 0
                     \/ ~p.stdout_empty /\ ~p.json_ok
           i == lastCheck.item
       IN  /\ IsNone(lastCheck.data) # IsNone(lastCheck.error)
           /\ ~failed => IsNone(lastCheck.error)
           /\ failed =>
                 /\ IsNone(lastCheck.data)
                 /\ lastCheck.error = Some(C22_Message(p))
                 /\ lastCheck.outcome = "returned"
                 /\ ~lastCheck.ret_ok
                 /\ lastCheck.ret_err = Some(C22_Message(p))
                 /\ snapshots[i] # <<>>
                 /\ snapshots[i][Len(snapshots[i])] =
                       Snapshot(lastCheck.at, None,
                                <<"ERROR: ", C22_Message(p)>>, None)

\* C23: a step of the detail view, the live query included, adds no Snapshot,
\* leaves every item row as it was (last_stock, last_probability, last_checked
\* and the last-notified fields with it) and sends no notification.
C23_LiveQueryReadOnly ==
    [][\A t \in ThreadIds :
          (th[t].op = "detail" \/ th'[t].op = "detail")
          => UNCHANGED <<folders, items, snapshots, notified>>]_vars

\* The live query of an item that has a recorded check returned records, and
\* the item row and its history are those the check left.
C23_Witness ==
    \E t \in ThreadIds :
        /\ th[t].op = "detail" /\ th[t].pc = "render"
        /\ Get(th[t].env).data # <<>>
        /\ snapshots[Get(th[t].item)] # <<>>
        /\ ~IsNone(items[Get(th[t].item)].last_checked)

\* C24: the two threshold rules are independent: a check in which the "rose
\* above" notification fired still evaluates the "fell below" rule, on the
\* item's below-threshold and the same previous_stock, and ends as a
\* successful check.
C24_BothRulesEvaluated ==
    \A n \in FiredNotes("above") :
        /\ HasAttr("notify_bellow_enabled")
        /\ HasAttr("notify_bellow_threshold")
        /\ lastCheck.outcome = "returned"
        /\ lastCheck.ret_ok

\* C25: a check in which the "rose above" notification fired leaves the
\* item's last-notified-above timestamp equal to its Snapshot timestamp; a
\* check in which it did not fire leaves the timestamp as it was.
C25_NotifiedStamps ==
    /\ \A n \in FiredNotes("above") :
          items[n.item].last_notified_at = Some(n.timestamp)
    /\ \A i \in DOMAIN items :
          ~IsNone(items[i].last_notified_at)
          => \E n \in notified :
                /\ n.item = i /\ n.direction = "above"
                /\ items[i].last_notified_at = Some(n.timestamp)

\* C26: checks of one item are not mutually excluded, and the item's cached
\* fields are those of whichever check commits last: every commit of a check
\* leaves last_stock, last_probability and last_checked equal to the values
\* of the Snapshot that commit inserted, whatever other checks of the item
\* read or committed meanwhile.
C26_LastCommitWins ==
    [][\A i \in DOMAIN items :
          Len(snapshots'[i]) = Len(snapshots[i]) + 1
          => LET sn == snapshots'[i][Len(snapshots'[i])]
             IN  /\ items'[i].last_stock = sn.total_stock
                 /\ items'[i].last_probability = Some(sn.probability_summary)
                 /\ items'[i].last_checked = Some(sn.timestamp)]_vars

\* The Snapshot of an item with the greatest timestamp.
C27_Latest(i) ==
    CHOOSE sn \in Range(snapshots[i]) :
        \A other \in Range(snapshots[i]) : other.timestamp <= sn.timestamp

\* C27: once no check of an item is between reading the clock and its commit,
\* the item's last_stock, last_probability and last_checked are the
\* total_stock, probability_summary and timestamp of the item's Snapshot with
\* the greatest timestamp.
C27_CacheIsLatest ==
    \A i \in DOMAIN items :
        (/\ snapshots[i] # <<>>
         /\ \A t \in ThreadIds : ~(th[t].pc = "write" /\ th[t].item = Some(i)))
        => /\ items[i].last_stock = C27_Latest(i).total_stock
           /\ items[i].last_probability = Some(C27_Latest(i).probability_summary)
           /\ items[i].last_checked = Some(C27_Latest(i).timestamp)

\* C28: as long as a background batch of an actor has not left its runner,
\* that actor is marked running.
C28_MarkedWhileRunning ==
    \A t \in ThreadIds :
        th[t].op = "background" => IsRunning(Get(th[t].user))

\* C29: a check whose node process exits with success and prints nothing, or
\* an empty list, is a failed check: it returns (false, "No data"), records a
\* Snapshot with null total_stock and summary "ERROR: No data", sets the
\* item's last_stock to null and sends no notification.
C29_EmptyIsFailure ==
    (/\ lastCheck.op # "none"
     /\ ~Get(lastCheck.proc).timed_out
     /\ Get(lastCheck.proc).returncode = 0
     /\ \/ Get(lastCheck.proc).stdout_empty
        \/ Get(lastCheck.proc).json_ok /\ Get(lastCheck.proc).data = <<>>)
    => LET i == lastCheck.item
       IN  /\ lastCheck.outcome = "returned"
           /\ ~lastCheck.ret_ok
           /\ lastCheck.ret_err = Some("No data")
           /\ snapshots[i] # <<>>
           /\ snapshots[i][Len(snapshots[i])] =
                 Snapshot(lastCheck.at, None, <<"ERROR: ", "No data">>, None)
           /\ IsNone(items[i].last_stock)
           /\ items[i].last_probability = Some(<<"ERROR: ", "No data">>)
           /\ FiredNotes("above") \cup FiredNotes("bellow") = {}

\* The source printed an empty list for an item whose stored last_stock was
\* below its threshold with the notification enabled; the stock is now null.
C29_Witness ==
    /\ lastCheck.op # "none"
    /\ Get(lastCheck.proc).json_ok /\ Get(lastCheck.proc).data = <<>>
    /\ lastCheck.previous_stock = Some(0)
    /\ lastCheck.notify_enabled /\ lastCheck.notify_threshold = Some(1)
    /\ IsNone(items[lastCheck.item].last_stock)
    /\ Len(snapshots[lastCheck.item]) = 2

\* C30: no step of a webhook request changes the running marks, so a webhook
\* batch never makes the status query report running; a UI trigger is
\* answered "already running" only when its own actor is marked; and a
\* webhook request whose key is refused ends without any check: no attempt,
\* no Snapshot, no item change, no notification.
C30_WebhookOutsideRunState ==
    [][/\ \A t \in ThreadIds :
             (th'[t] # th[t]
              /\ (th[t].op \in {"webhook_all", "webhook_denied"}
                  \/ th'[t].op \in {"webhook_all", "webhook_denied"}))
             => CHECK_RUNNING' = CHECK_RUNNING
       /\ (lastTrigger' # lastTrigger /\ lastTrigger'.found_running)
             => ~IsNone(CHECK_RUNNING[lastTrigger'.user])
       /\ \A t \in ThreadIds :
             (th'[t] # th[t]
              /\ (th[t].op = "webhook_denied" \/ th'[t].op = "webhook_denied"))
             => /\ th[t].op = "idle" \/ th'[t].op = "idle"
                /\ UNCHANGED <<attempts, snapshots, items, notified, now>>]_vars

\* A webhook batch has a check in flight while the admin is marked running
\* and the admin's background batch has not ended.
C30_Witness ==
    \E t1, t2 \in ThreadIds :
        /\ th[t1].op = "webhook_all" /\ th[t1].pc = "node"
        /\ th[t2].op = "background"
        /\ IsRunning(Get(th[t2].user))
        /\ ~IsRunning(2)


====
